---------------------------- MODULE Spec2Model ----------------------------
(***************************************************************************)
(* A model of the countdown-timer application: the localStorage wrapper    *)
(* (Storage), the App component's landing data (getLandingData), the Add   *)
(* slide (saveTimer) and the Landing slide's remove dialog (deleteTimer).  *)
(*                                                                         *)
(* The program runs on the browser's event loop.  A task (a click, a       *)
(* timeout, a lifecycle call) runs to completion, then the microtask queue *)
(* is drained in FIFO order before the next task starts.  Every `await`    *)
(* and every `.then` callback of the source is one microtask of the model. *)
(***************************************************************************)
EXTENDS Integers, Sequences, FiniteSets, TLC

(***************************************************************************)
(* Bounds of the model.                                                    *)
(***************************************************************************)
\* The random 32-bit value generateUUID picks ranges over 0..MaxRandom.
MaxRandom == 1
\* A goBack is only started while fewer than MaxPendingResets of its
\* delayed resets are pending.
MaxPendingResets == 1
\* A message is only produced while fewer than MaxMessages are undispatched.
MaxMessages == 1
\* The ranges of the number inputs explored by SpecAdd.
MaxHours == 2
MaxMinutes == 2
MaxSeconds == 2
\* At time 0 a Timer only ticks while fewer than MaxGraces of its timeouts
\* are pending.
MaxGraces == 2
\* A list is only rendered while it leaves at most MaxUnmounted unmounted
\* Timers with callbacks scheduled.
MaxUnmounted == 1
\* The time of the record in SpecCountdown.
MaxCountdown == 20
\* The time of the record in SpecRun.
MaxDisplayTime == 3700
\* App.showMessage is given at most MaxReceived messages.
MaxReceived == 4
\* hideSnackbar is only called while fewer than MaxListeners of its listeners
\* wait for the end of the transition.
MaxListeners == 2
\* Dialog.confirm is only called while fewer than MaxClosing listeners of
\* Dialog.close wait for the end of the transition.
MaxClosing == 2
\* A Dialog has at most MaxFocusable focusable elements.
MaxFocusable == 3

(***************************************************************************)
(* Numbers as JavaScript sees them in Add: an integer or NaN.              *)
(***************************************************************************)
NaNv == [nan |-> TRUE, v |-> 0]
Num(n) == [nan |-> FALSE, v |-> n]

\* The truthiness test of `x ? a : b` on a number: NaN and 0 are falsy.
Truthy(x) == ~x.nan /\ x.v # 0

NumMul(x, n) == IF x.nan THEN NaNv ELSE Num(x.v * n)

NumAdd(x, y) == IF x.nan \/ y.nan THEN NaNv ELSE Num(x.v + y.v)

Abs(n) == IF n < 0 THEN -n ELSE n

(***************************************************************************)
(* Strings that the program takes apart are sequences of characters.       *)
(***************************************************************************)
DigitChars == <<"0", "1", "2", "3", "4", "5", "6", "7", "8", "9">>

\* Number.prototype.toString() of a non-negative integer.
RECURSIVE NumToString(_)
NumToString(n) ==
    IF n < 10 THEN <<DigitChars[n + 1]>>
    ELSE Append(NumToString(n \div 10), DigitChars[(n % 10) + 1])

DigitValue(c) == CHOOSE d \in 0..9 : DigitChars[d + 1] = c

\* The number a decimal literal denotes (JSON.parse of a number).
RECURSIVE ParseNumber(_)
ParseNumber(s) ==
    IF Len(s) = 0 THEN 0
    ELSE ParseNumber(SubSeq(s, 1, Len(s) - 1)) * 10 + DigitValue(s[Len(s)])

\* String.prototype.includes.
Includes(str, part) ==
    \E i \in 0..(Len(str) - Len(part)) : SubSeq(str, i + 1, i + Len(part)) = part

(***************************************************************************)
(* Timer records and their JSON text.                                      *)
(***************************************************************************)
Null == [isNull |-> TRUE, id |-> 0, time |-> 0, title |-> ""]
TimerData(id, time, title) == [isNull |-> FALSE, id |-> id, time |-> time, title |-> title]

NullText == <<"null">>

\* JSON.stringify of a TimerData: the text as a sequence of tokens, the
\* numbers written out in decimal digits.
JSONstringify(value) ==
    IF value.isNull THEN NullText
    ELSE <<"{\"id\":">> \o NumToString(value.id)
         \o <<",\"time\":">> \o NumToString(value.time)
         \o <<",\"title\":">> \o <<value.title>> \o <<"}">>

IndexOf(text, token) == CHOOSE i \in 1..Len(text) : text[i] = token

\* JSON.parse of a text written by JSONstringify; "null" parses to null.
JSONparse(text) ==
    IF text = NullText THEN Null
    ELSE LET iTime == IndexOf(text, ",\"time\":")
             iTitle == IndexOf(text, ",\"title\":")
         IN TimerData(ParseNumber(SubSeq(text, 2, iTime - 1)),
                      ParseNumber(SubSeq(text, iTime + 1, iTitle - 1)),
                      text[iTitle + 1])


(***************************************************************************)
(* localStorage and the Storage wrapper (prefix 'timer').                  *)
(***************************************************************************)
Prefix == <<"t", "i", "m", "e", "r">>

AccentKey == <<"a", "p", "p", "-", "a", "c", "c", "e", "n", "t">>
GradientKey == <<"a", "p", "p", "-", "g", "r", "a", "d", "i", "e", "n", "t">>
ThemeKey == <<"a", "p", "p", "-", "t", "h", "e", "m", "e">>

\* A variant of prefixed without the separator.
PrefixedUnseparated(key) ==
    IF Includes(key, Prefix) THEN key
    ELSE IF Len(Prefix) > 0 THEN Prefix \o key ELSE key

\* Storage.prefixed: the key itself when it already contains the prefix.
Prefixed(key) ==
    IF Includes(key, Prefix) THEN key
    ELSE IF Len(Prefix) > 0 THEN Prefix \o <<"-">> \o key ELSE key

\* A variant of getItem that has the text of an empty record for a key that
\* is not stored.
GetItemDefaulting(ls, key) ==
    IF key \in DOMAIN ls THEN ls[key] ELSE JSONstringify(TimerData(0, 0, ""))

\* localStorage.getItem: the stored text, or null (which JSON.parse reads as
\* the text "null").
GetItem(ls, key) == IF key \in DOMAIN ls THEN ls[key] ELSE NullText

\* A variant of setItem that keeps the text of a key that is stored.
SetItemKeeping(ls, key, text) ==
    [k \in DOMAIN ls \cup {key} |-> IF k \in DOMAIN ls THEN ls[k] ELSE text]

\* localStorage.setItem.
SetItem(ls, key, text) == [k \in DOMAIN ls \cup {key} |-> IF k = key THEN text ELSE ls[k]]

\* localStorage.removeItem.
RemoveItem(ls, key) == [k \in DOMAIN ls \ {key} |-> ls[k]]

\* The keys Storage.keys() returns: those that contain the prefix.
StorageKeys(ls) ==
    IF Len(Prefix) > 0 THEN {k \in DOMAIN ls : Includes(k, Prefix)} ELSE DOMAIN ls

\* Object.keys(localStorage) lists the keys in an order the browser chooses:
\* every arrangement of a set of keys.
Orders(S) ==
    {q \in [1..Cardinality(S) -> S] : \A i, j \in 1..Cardinality(S) : i # j => q[i] # q[j]}

\* PreferencesManager.setDefaults after the constructor has read the three
\* settings: a setting without a value gets its default.
SetDefaults(ls) ==
    LET a == IF AccentKey \in DOMAIN ls THEN ls ELSE SetItem(ls, AccentKey, <<"teal">>)
        g == IF GradientKey \in DOMAIN a THEN a ELSE SetItem(a, GradientKey, <<"KyeMeh">>)
    IN IF ThemeKey \in DOMAIN g THEN g ELSE SetItem(g, ThemeKey, <<"light">>)

\* PreferencesManager.get as the value of a field: null when the setting is
\* not stored.
get(ls, key) ==
    IF key \in DOMAIN ls THEN [null |-> FALSE, value |-> ls[key]]
    ELSE [null |-> TRUE, value |-> <<>>]

\* The text a template literal makes of a field.
FieldText(f) == IF f.null THEN <<"null">> ELSE f.value

\* A field is truthy when it holds a text that is not empty.
FieldTruthy(f) == ~f.null /\ f.value # <<>>

\* The page before any preference is applied: a manager has no fields yet,
\* the app container has no gradient class, the body no accent class and no
\* class of the dark theme.
NoPreferences ==
    [accent |-> [null |-> TRUE, value |-> <<>>],
     gradient |-> [null |-> TRUE, value |-> <<>>],
     theme |-> [null |-> TRUE, value |-> <<>>],
     gradientClasses |-> {}, accentClasses |-> {}, dark |-> FALSE]

\* The constructor of PreferencesManager: the fields are what localStorage
\* holds before setDefaults.
PreferencesManager(ls) ==
    [accent |-> get(ls, AccentKey), gradient |-> get(ls, GradientKey),
     theme |-> get(ls, ThemeKey)]

\* A variant of applyPreferences that takes the accent and the gradient from
\* the fields only.
applyPreferencesOfFields(m, ls, p) ==
    [accent |-> m.accent, gradient |-> m.gradient, theme |-> m.theme,
     gradientClasses |-> p.gradientClasses \cup {FieldText(m.gradient)},
     accentClasses |-> p.accentClasses \cup {FieldText(m.accent)},
     dark |-> p.dark \/ (FieldTruthy(m.theme) /\ m.theme.value = <<"dark">>)]

\* PreferencesManager.applyPreferences of the manager m, with ls in
\* localStorage, on the page p: a field that is not truthy is read from
\* localStorage.
applyPreferences(m, ls, p) ==
    [accent |-> m.accent, gradient |-> m.gradient, theme |-> m.theme,
     gradientClasses |-> p.gradientClasses \cup
         {IF FieldTruthy(m.gradient) THEN m.gradient.value
          ELSE FieldText(get(ls, GradientKey))},
     accentClasses |-> p.accentClasses \cup
         {IF FieldTruthy(m.accent) THEN m.accent.value
          ELSE FieldText(get(ls, AccentKey))},
     dark |-> p.dark \/ (FieldTruthy(m.theme) /\ m.theme.value = <<"dark">>)]

(***************************************************************************)
(* Add: the id generator and the duration.                                 *)
(***************************************************************************)
\* generateUUID: rnd is the random 32-bit value picked from the batch, now is
\* Date.now().
generateUUID(rnd, now) == Abs(rnd + now)

\* A variant of calcTime that multiplies and adds the components as they are.
calcTimePropagating(h, m, s) == NumAdd(NumAdd(NumMul(h, 3600), NumMul(m, 60)), s)

\* calcTime: a falsy (0 or NaN) component counts as 0.
calcTime(h, m, s) ==
    LET hours == IF Truthy(h) THEN NumMul(h, 3600) ELSE Num(0)
        minutes == IF Truthy(m) THEN NumMul(m, 60) ELSE Num(0)
        seconds == IF Truthy(s) THEN s ELSE Num(0)
    IN NumAdd(NumAdd(hours, minutes), seconds)

\* A variant of the test that lets a duration of 0 pass: time >= 0.
ValidTimeNonNegative(time) == ~time.nan /\ time.v >= 0

\* A variant of the test that only asks for a number: !isNaN(time).
ValidTimeNumber(time) == ~time.nan

\* The test of saveTimer: !isNaN(time) && time > 0.
ValidTime(time) == ~time.nan /\ time.v > 0

\* The title saveTimer stores: title ? title : ''.
SaveTitle(title) == IF title # "" THEN title ELSE ""

\* A variant of the Store key: the title.
SaveKeyByTitle(saveData) == <<saveData.title>>

\* The Store key saveTimer writes under: id.toString().
SaveKey(saveData) == NumToString(saveData.id)

\* A variant of the key deleteTimer removes: the prefix and the id without
\* the separator.
DeleteKeyUnseparated(id) == Prefix \o NumToString(id)

\* The Store key deleteTimer removes: dialogId.toString().
DeleteKey(id) == NumToString(id)

(***************************************************************************)
(* State.                                                                  *)
(***************************************************************************)
VARIABLES
    localStorage,       \* window.localStorage: key -> stored text
    mq,                 \* the microtask queue: pending promise jobs, FIFO
    mounted,            \* App.componentDidMount has run
    landingData,        \* the array App.landingData refers to
    stateData,          \* the array App.state.landingData refers to
    sameArray,          \* App.state.landingData === App.landingData
    activeSlide,        \* App.state.activeSlide ("null", "add", "preferences")
    landingActive,      \* App.state.landingActive
    resetTimers,        \* pending timeouts of goBack (360 ms)
    messages,           \* App.state.messages
    addError,           \* Add.state.error of the mounted Add slide
    dialogActive,       \* Landing.state.dialogActive
    dialogId,           \* Landing.state.dialogId
    pubCount,           \* history: setState({landingData}) calls since the last getLandingData call
    refreshKeys,        \* history: the keys the last key enumeration returned
    op,                 \* history: the collection operation last started
    saved,              \* history: the saveData of the last accepted saveTimer
    attempt,            \* history: inputs and outcome of saveTimer, if the last step was saveTimer
    before,             \* history: localStorage when the last create or delete was started
    timers,             \* the mounted Timer components, by React key (the record's id)
    unmounted,          \* the unmounted Timer components that still have callbacks scheduled
    documentTitle,      \* document.title
    snackbar,           \* the Snackbar component: its state and fields, and what it was given and has shown
    dialog,             \* the Dialog component of the Landing, and the classes and the focus it sets
    preferences         \* the PreferencesManager of the App, and the classes it has put on the page

\* The state of the Timer components.
timerVars == <<timers, unmounted, documentTitle>>

\* The state of the App, the slides and the Store.
appVars == <<localStorage, mq, mounted, landingData, stateData, sameArray, activeSlide,
             landingActive, resetTimers, messages, addError, dialogActive, dialogId,
             pubCount, refreshKeys, op, saved, attempt, before, snackbar, dialog, preferences>>

vars == <<localStorage, mq, mounted, landingData, stateData, sameArray, activeSlide,
          landingActive, resetTimers, messages, addError, dialogActive, dialogId,
          pubCount, refreshKeys, op, saved, attempt, before, timers, unmounted,
          documentTitle, snackbar, dialog, preferences>>

NoAttempt == [made |-> FALSE, h |-> NaNv, m |-> NaNv, s |-> NaNv, title |-> "",
              time |-> NaNv, accepted |-> FALSE, id |-> 0]

\* A promise job: the continuation of an `await` or a `.then` callback.
Job(kind, key, keys, data) == [kind |-> kind, key |-> key, keys |-> keys, data |-> data]

KeysResume_ == Job("keysResume", <<>>, <<>>, Null)

\* A task that belongs to no collection operation ends the record of the last one.
ForgetOperation ==
    /\ op' = "none"
    /\ saved' = Null
    /\ before' = <<>>

\* The title of the page as loaded.
PageTitle == <<"Countdown">>

\* No Dialog is mounted.  mounted: the Landing renders the Dialog (the ref of
\* its container is set); keyboard: the prop; focusable: the length of
\* focusableElements; focusIndex; containerActive and fadeIn: the classes of
\* the container; fadeInPending: the timeout of open is set; scrollLocked: the class on the scrollbar parent;
\* listeners: the listeners of 'transitionend' that close has added to the
\* container; focus: where document.activeElement is (the control that
\* opened the dialog, an element of the dialog, or the body), and
\* lastActive: lastActiveElement.  History: closed (cancel or confirm was
\* called since the dialog was opened).
NoDialog ==
    [mounted |-> FALSE, keyboard |-> FALSE, focusable |-> 0, focusIndex |-> 0,
     containerActive |-> FALSE, fadeIn |-> FALSE, fadeInPending |-> FALSE,
     scrollLocked |-> FALSE, listeners |-> 0,
     focus |-> "opener", lastActive |-> "opener", closed |-> FALSE]

\* The Snackbar as constructed: state.active, the fields queue, text and
\* timeout (whether a timeout of hideSnackbar is set), the listeners of
\* 'transitionend' that hideSnackbar has added, and whether the container has
\* the class that shows it.  History: the messages App.showMessage was given
\* (received) and the texts showSnackbar has set (displayed).
NewSnackbar ==
    [active |-> FALSE, queue |-> <<>>, text |-> "", timeout |-> FALSE, listeners |-> 0,
     shown |-> FALSE, received |-> <<>>, displayed |-> <<>>]

\* The state of a freshly loaded page; localStorage is what earlier sessions left.
Fresh ==
    /\ mq = <<>>
    /\ mounted = FALSE
    /\ landingData = <<>>
    /\ stateData = <<>>
    /\ sameArray = FALSE
    /\ activeSlide = "null"
    /\ landingActive = TRUE
    /\ resetTimers = 0
    /\ messages = <<>>
    /\ addError = FALSE
    /\ dialogActive = FALSE
    /\ dialogId = 0
    /\ pubCount = 0
    /\ refreshKeys = <<>>
    /\ op = "none"
    /\ saved = Null
    /\ attempt = NoAttempt
    /\ before = <<>>
    /\ timers = <<>>
    /\ unmounted = {}
    /\ documentTitle = PageTitle
    /\ snackbar = NewSnackbar
    /\ dialog = NoDialog
    /\ preferences = NoPreferences

\* First visit: localStorage is empty.
Init ==
    /\ localStorage = <<>>
    /\ Fresh

(***************************************************************************)
(* App.getLandingData and the promise jobs it starts.                      *)
(***************************************************************************)
\* A variant of getLandingData that does not replace the array.
getLandingDataKeeping(q) ==
    /\ UNCHANGED <<landingData, sameArray>>
    /\ pubCount' = 0
    /\ mq' = Append(q, KeysResume_)

\* The synchronous part of getLandingData, called with q the microtask queue
\* at the call: the array is replaced by a new empty one and Storage.keys()
\* runs up to its await.
getLandingData(q) ==
    /\ landingData' = <<>>
    /\ sameArray' = FALSE
    /\ pubCount' = 0
    /\ mq' = Append(q, KeysResume_)

\* setState({ landingData: this.landingData }): the state now refers to the
\* very array App.landingData refers to.
PublishLandingData(list) ==
    /\ stateData' = list
    /\ sameArray' = TRUE
    /\ pubCount' = pubCount + 1

\* Storage.keys after its await: the keys are read and handed to the
\* callback of getLandingData.
KeysResume ==
    /\ mq # <<>> /\ Head(mq).kind = "keysResume"
    /\ \E keys \in Orders(StorageKeys(localStorage)) :
          mq' = Append(Tail(mq), Job("keysThen", <<>>, keys, Null))
    /\ attempt' = NoAttempt
    /\ UNCHANGED <<localStorage, mounted, landingData, stateData, sameArray, activeSlide,
                   landingActive, resetTimers, messages, addError, dialogActive, dialogId, pubCount, refreshKeys, op, saved, before>>
    /\ UNCHANGED <<timerVars, snackbar, dialog, preferences>>

\* The callback of keys(): one Storage.get per key, each run up to its
\* await; without keys the (empty) array is published at once.
KeysThenApp ==
    /\ mq # <<>> /\ Head(mq).kind = "keysThen"
    /\ LET keys == Head(mq).keys IN
       /\ refreshKeys' = keys
       /\ IF Len(keys) > 0
          THEN /\ mq' = Tail(mq) \o [i \in 1..Len(keys) |-> Job("getResume", keys[i], <<>>, Null)]
               /\ UNCHANGED <<stateData, sameArray, pubCount>>
          ELSE /\ mq' = Tail(mq)
               /\ PublishLandingData(landingData)
    /\ attempt' = NoAttempt
    /\ UNCHANGED <<localStorage, mounted, landingData, activeSlide, landingActive, resetTimers,
                   messages, addError, dialogActive, dialogId, op, saved,
                   before>>

\* The callback of keys(), the Timers of the Landing left aside.
KeysThen ==
    /\ KeysThenApp
    /\ UNCHANGED <<timerVars, snackbar, dialog, preferences>>

\* Storage.get after its await: the entry is read and parsed, and handed to
\* the first callback of getLandingData.
GetResume ==
    /\ mq # <<>> /\ Head(mq).kind = "getResume"
    /\ LET data == JSONparse(GetItem(localStorage, Prefixed(Head(mq).key)))
       IN mq' = Append(Tail(mq), Job("pushThen", <<>>, <<>>, data))
    /\ attempt' = NoAttempt
    /\ UNCHANGED <<localStorage, mounted, landingData, stateData, sameArray, activeSlide,
                   landingActive, resetTimers, messages, addError, dialogActive, dialogId, pubCount, refreshKeys, op, saved, before>>
    /\ UNCHANGED <<timerVars, snackbar, dialog, preferences>>

\* A variant of PushThen that publishes in the callback that pushes.
PushThenPublishing ==
    /\ mq # <<>> /\ Head(mq).kind = "pushThen"
    /\ landingData' = Append(landingData, Head(mq).data)
    /\ PublishLandingData(Append(landingData, Head(mq).data))
    /\ mq' = Tail(mq)
    /\ attempt' = NoAttempt
    /\ UNCHANGED <<localStorage, mounted, activeSlide, landingActive, resetTimers, messages,
                   addError, dialogActive, dialogId, refreshKeys, op, saved,
                   before>>
    /\ UNCHANGED <<timerVars, snackbar, dialog, preferences>>

\* The first callback of get(): the data is pushed to App.landingData (and
\* shows in the state's array when that is the same array).
PushThen ==
    /\ mq # <<>> /\ Head(mq).kind = "pushThen"
    /\ landingData' = Append(landingData, Head(mq).data)
    /\ stateData' = IF sameArray THEN Append(stateData, Head(mq).data) ELSE stateData
    /\ mq' = Append(Tail(mq), Job("publishThen", <<>>, <<>>, Null))
    /\ attempt' = NoAttempt
    /\ UNCHANGED <<localStorage, mounted, sameArray, activeSlide, landingActive, resetTimers,
                   messages, addError, dialogActive, dialogId, pubCount,
                   refreshKeys, op, saved, before>>
    /\ UNCHANGED <<timerVars, snackbar, dialog, preferences>>

\* The second callback of get(): the array is published.
PublishThenApp ==
    /\ mq # <<>> /\ Head(mq).kind = "publishThen"
    /\ PublishLandingData(landingData)
    /\ mq' = Tail(mq)
    /\ attempt' = NoAttempt
    /\ UNCHANGED <<localStorage, mounted, landingData, activeSlide, landingActive, resetTimers,
                   messages, addError, dialogActive, dialogId, refreshKeys,
                   op, saved, before>>

\* The second callback of get(), the Timers of the Landing left aside.
PublishThen ==
    /\ PublishThenApp
    /\ UNCHANGED <<timerVars, snackbar, dialog, preferences>>

(***************************************************************************)
(* App: mounting, the slides and the messages.                             *)
(***************************************************************************)
\* App.componentDidMount: the preferences get their defaults and are applied
\* to the page, and the landing data is requested.
Mount ==
    /\ ~mounted /\ mq = <<>>
    /\ mounted' = TRUE
    /\ localStorage' = SetDefaults(localStorage)
    /\ preferences' = applyPreferences(PreferencesManager(localStorage),
                                       SetDefaults(localStorage), preferences)
    /\ getLandingData(mq)
    /\ op' = "mount"
    /\ attempt' = NoAttempt
    /\ UNCHANGED <<stateData, activeSlide, landingActive, resetTimers, messages, addError,
                   dialogActive, dialogId, refreshKeys, saved, before>>
    /\ UNCHANGED <<timerVars, snackbar, dialog>>

\* The page is loaded again: only localStorage survives.
Reload ==
    /\ mounted /\ mq = <<>>
    /\ mounted' = FALSE
    /\ landingData' = <<>>
    /\ stateData' = <<>>
    /\ sameArray' = FALSE
    /\ activeSlide' = "null"
    /\ landingActive' = TRUE
    /\ resetTimers' = 0
    /\ messages' = <<>>
    /\ addError' = FALSE
    /\ dialogActive' = FALSE
    /\ dialogId' = 0
    /\ pubCount' = 0
    /\ refreshKeys' = <<>>
    /\ op' = "none"
    /\ saved' = Null
    /\ attempt' = NoAttempt
    /\ before' = <<>>
    /\ UNCHANGED <<localStorage, mq>>
    /\ timers' = <<>>
    /\ unmounted' = {}
    /\ documentTitle' = PageTitle
    /\ snackbar' = NewSnackbar
    /\ dialog' = NoDialog
    /\ preferences' = NoPreferences

\* Landing.openAdd / openPreferences -> App.openSlide(name) and goForward.
\* The Add slide is constructed (error: false) unless it is mounted already.
OpenSlide(name) ==
    /\ mounted /\ mq = <<>>
    /\ activeSlide' = name
    /\ landingActive' = FALSE
    /\ addError' = IF name = "add" /\ activeSlide = "add" THEN addError ELSE FALSE
    /\ attempt' = NoAttempt
    /\ ForgetOperation
    /\ UNCHANGED <<localStorage, mq, mounted, landingData, stateData, sameArray, resetTimers,
                   messages, dialogActive, dialogId, pubCount, refreshKeys>>
    /\ UNCHANGED <<timerVars, snackbar, dialog, preferences>>

\* App.goBack, as a conjunct of the handlers that call it: the Landing is
\* active again and the reset of activeSlide is scheduled.
goBack ==
    /\ landingActive' = TRUE
    /\ resetTimers' = resetTimers + 1

\* The back button of the mounted slide.
GoBackClick ==
    /\ mounted /\ mq = <<>>
    /\ activeSlide # "null"
    /\ resetTimers < MaxPendingResets
    /\ goBack
    /\ attempt' = NoAttempt
    /\ ForgetOperation
    /\ UNCHANGED <<localStorage, mq, mounted, landingData, stateData, sameArray, activeSlide,
                   messages, addError, dialogActive, dialogId, pubCount,
                   refreshKeys>>
    /\ UNCHANGED <<timerVars, snackbar, dialog, preferences>>

\* The timeout of goBack fires: no slide is active, so the slide unmounts.
ResetTimeout ==
    /\ mq = <<>>
    /\ resetTimers > 0
    /\ resetTimers' = resetTimers - 1
    /\ activeSlide' = "null"
    /\ addError' = FALSE
    /\ attempt' = NoAttempt
    /\ ForgetOperation
    /\ UNCHANGED <<localStorage, mq, mounted, landingData, stateData, sameArray, landingActive,
                   messages, dialogActive, dialogId, pubCount, refreshKeys>>
    /\ UNCHANGED <<timerVars, snackbar, dialog, preferences>>

\* App.removeMessage, called by the Snackbar when it has taken a message.
RemoveMessage ==
    /\ mq = <<>>
    /\ messages # <<>>
    /\ messages' = Tail(messages)
    /\ attempt' = NoAttempt
    /\ ForgetOperation
    /\ UNCHANGED <<localStorage, mq, mounted, landingData, stateData, sameArray, activeSlide,
                   landingActive, resetTimers, addError, dialogActive, dialogId, pubCount, refreshKeys>>
    /\ UNCHANGED <<timerVars, snackbar, dialog, preferences>>

(***************************************************************************)
(* Add.saveTimer and its promise jobs.                                     *)
(***************************************************************************)
TimerCount == Cardinality(StorageKeys(localStorage))

\* A variant of saveTimer that does not wait for Storage.set: onBack,
\* onRefresh and onMessage are called right after the call of set.
saveTimerNotAwaiting(title, h, m, s, rnd, now) ==
    /\ mounted /\ mq = <<>>
    /\ activeSlide = "add"
    /\ LET time == calcTime(h, m, s) IN
       IF ValidTime(time)
       THEN LET id == generateUUID(rnd, now)
                saveData == TimerData(id, time.v, SaveTitle(title))
            IN /\ resetTimers < MaxPendingResets
               /\ Len(messages) < MaxMessages
               /\ goBack
               /\ getLandingData(<<Job("setResume", SaveKey(saveData), <<>>, saveData)>>)
               /\ messages' = Append(messages, "Timer successfully added")
               /\ op' = "created"
               /\ saved' = saveData
               /\ attempt' = [made |-> TRUE, h |-> h, m |-> m, s |-> s, title |-> title,
                              time |-> time, accepted |-> TRUE, id |-> id]
               /\ before' = localStorage
               /\ UNCHANGED addError
       ELSE /\ addError' = TRUE
            /\ attempt' = [made |-> TRUE, h |-> h, m |-> m, s |-> s, title |-> title,
                           time |-> time, accepted |-> FALSE, id |-> 0]
            /\ ForgetOperation
            /\ UNCHANGED <<mq, landingData, sameArray, landingActive, resetTimers, messages,
                           pubCount>>
    /\ UNCHANGED <<localStorage, mounted, stateData, activeSlide, dialogActive, dialogId, refreshKeys>>
    /\ UNCHANGED <<timerVars, snackbar, dialog, preferences>>

\* The save button of the mounted Add slide.  title, h, m and s are what the
\* inputs hold (parseInt of an empty input is NaN), rnd and now are what the
\* id generator draws.  A valid duration: Storage.set runs up to its await.
saveTimer(title, h, m, s, rnd, now) ==
    /\ mounted /\ mq = <<>>
    /\ activeSlide = "add"
    /\ LET time == calcTime(h, m, s) IN
       IF ValidTime(time)
       THEN LET id == generateUUID(rnd, now)
                saveData == TimerData(id, time.v, SaveTitle(title))
            IN /\ resetTimers < MaxPendingResets
               /\ Len(messages) < MaxMessages
               /\ mq' = <<Job("setResume", SaveKey(saveData), <<>>, saveData)>>
               /\ op' = "creating"
               /\ saved' = saveData
               /\ attempt' = [made |-> TRUE, h |-> h, m |-> m, s |-> s, title |-> title,
                              time |-> time, accepted |-> TRUE, id |-> id]
               /\ before' = localStorage
               /\ UNCHANGED addError
       ELSE /\ addError' = TRUE
            /\ attempt' = [made |-> TRUE, h |-> h, m |-> m, s |-> s, title |-> title,
                           time |-> time, accepted |-> FALSE, id |-> 0]
            /\ ForgetOperation
            /\ UNCHANGED mq
    /\ UNCHANGED <<localStorage, mounted, landingData, stateData, sameArray, activeSlide,
                   landingActive, resetTimers, messages, dialogActive, dialogId, pubCount, refreshKeys>>
    /\ UNCHANGED <<timerVars, snackbar, dialog, preferences>>

\* Storage.set after its await: the entry is written.
SetResume ==
    /\ mq # <<>> /\ Head(mq).kind = "setResume"
    /\ localStorage' = SetItem(localStorage, Prefixed(Head(mq).key),
                                JSONstringify(Head(mq).data))
    /\ mq' = Append(Tail(mq), Job("saveThen", <<>>, <<>>, Null))
    /\ attempt' = NoAttempt
    /\ UNCHANGED <<mounted, landingData, stateData, sameArray, activeSlide, landingActive,
                   resetTimers, messages, addError, dialogActive, dialogId,
                   pubCount, refreshKeys, op, saved, before>>
    /\ UNCHANGED <<timerVars, snackbar, dialog, preferences>>

\* The callback of set(): onBack, onRefresh, onMessage.
SaveThen ==
    /\ mq # <<>> /\ Head(mq).kind = "saveThen"
    /\ goBack
    /\ getLandingData(Tail(mq))
    /\ messages' = Append(messages, "Timer successfully added")
    /\ op' = "created"
    /\ attempt' = NoAttempt
    /\ UNCHANGED <<localStorage, mounted, stateData, activeSlide, addError, dialogActive,
                   dialogId, refreshKeys, saved, before>>
    /\ UNCHANGED <<timerVars, snackbar, dialog, preferences>>

\* Add.handleChange: an input changed to a positive number.
HandleChange ==
    /\ mounted /\ mq = <<>>
    /\ activeSlide = "add"
    /\ addError' = FALSE
    /\ attempt' = NoAttempt
    /\ ForgetOperation
    /\ UNCHANGED <<localStorage, mq, mounted, landingData, stateData, sameArray, activeSlide,
                   landingActive, resetTimers, messages, dialogActive, dialogId, pubCount, refreshKeys>>
    /\ UNCHANGED <<timerVars, snackbar, dialog, preferences>>

(***************************************************************************)
(* Landing: the remove dialog and deleteTimer.                             *)
(***************************************************************************)
\* The ids of the timers Landing shows (props.data).
ShownIds == {stateData[i].id : i \in {j \in 1..Len(stateData) : ~stateData[j].isNull}}

\* Landing.openDialog and openKbDialog of a shown timer.  The two differ in the
\* state's keyboard flag, which only the focus handling of the Dialog reads.
OpenDialogApp(id) ==
    /\ mounted /\ mq = <<>>
    /\ ~dialogActive
    /\ id \in ShownIds
    /\ dialogActive' = TRUE
    /\ dialogId' = id
    /\ attempt' = NoAttempt
    /\ ForgetOperation
    /\ UNCHANGED <<localStorage, mq, mounted, landingData, stateData, sameArray, activeSlide,
                   landingActive, resetTimers, messages, addError, pubCount, refreshKeys>>

\* Landing.openDialog, the Dialog component left aside.
OpenDialog(id) ==
    /\ OpenDialogApp(id)
    /\ UNCHANGED <<timerVars, snackbar, dialog, preferences>>

\* Dialog.cancel -> Landing.cancelDialog.
CancelDialogApp ==
    /\ mounted /\ mq = <<>>
    /\ dialogActive
    /\ dialogActive' = FALSE
    /\ attempt' = NoAttempt
    /\ ForgetOperation
    /\ UNCHANGED <<localStorage, mq, mounted, landingData, stateData, sameArray, activeSlide,
                   landingActive, resetTimers, messages, addError, dialogId,
                   pubCount, refreshKeys>>

\* Landing.cancelDialog, the Dialog component left aside.
CancelDialog ==
    /\ CancelDialogApp
    /\ UNCHANGED <<timerVars, snackbar, dialog, preferences>>

\* Dialog.confirm -> Landing.deleteTimer: Storage.delete runs up to its await.
deleteTimerApp ==
    /\ mounted /\ mq = <<>>
    /\ dialogActive
    /\ Len(messages) < MaxMessages
    /\ mq' = <<Job("deleteResume", DeleteKey(dialogId), <<>>, Null)>>
    /\ op' = "deleting"
    /\ saved' = Null
    /\ before' = localStorage
    /\ attempt' = NoAttempt
    /\ UNCHANGED <<localStorage, mounted, landingData, stateData, sameArray, activeSlide,
                   landingActive, resetTimers, messages, addError, dialogActive, dialogId, pubCount, refreshKeys>>

\* A variant of deleteTimer that does not wait for Storage.delete:
\* cancelDialog, onRefresh and onMessage are called at once.
deleteTimerNotAwaiting ==
    /\ mounted /\ mq = <<>>
    /\ dialogActive
    /\ Len(messages) < MaxMessages
    /\ dialogActive' = FALSE
    /\ getLandingData(<<Job("deleteResume", DeleteKey(dialogId), <<>>, Null)>>)
    /\ messages' = Append(messages, "Timer successfully removed")
    /\ op' = "deleting"
    /\ saved' = Null
    /\ before' = localStorage
    /\ attempt' = NoAttempt
    /\ UNCHANGED <<localStorage, mounted, stateData, activeSlide, landingActive, resetTimers,
                   addError, dialogId, refreshKeys>>
    /\ UNCHANGED <<timerVars, snackbar, dialog, preferences>>

\* Landing.deleteTimer, the Dialog component left aside.
deleteTimer ==
    /\ deleteTimerApp
    /\ UNCHANGED <<timerVars, snackbar, dialog, preferences>>

\* Storage.delete after its await: the entry is removed.
DeleteResume ==
    /\ mq # <<>> /\ Head(mq).kind = "deleteResume"
    /\ localStorage' = RemoveItem(localStorage, Prefixed(Head(mq).key))
    /\ mq' = Append(Tail(mq), Job("deleteThen", <<>>, <<>>, Null))
    /\ attempt' = NoAttempt
    /\ UNCHANGED <<mounted, landingData, stateData, sameArray, activeSlide, landingActive,
                   resetTimers, messages, addError, dialogActive, dialogId,
                   pubCount, refreshKeys, op, saved, before>>
    /\ UNCHANGED <<timerVars, snackbar, dialog, preferences>>

\* The callback of delete(): cancelDialog, onRefresh, onMessage.
DeleteThenApp ==
    /\ mq # <<>> /\ Head(mq).kind = "deleteThen"
    /\ dialogActive' = FALSE
    /\ getLandingData(Tail(mq))
    /\ messages' = Append(messages, "Timer successfully removed")
    /\ op' = "deleted"
    /\ attempt' = NoAttempt
    /\ UNCHANGED <<localStorage, mounted, stateData, activeSlide, landingActive, resetTimers,
                   addError, dialogId, refreshKeys, saved, before>>

\* The callback of delete(), the Dialog component left aside.
DeleteThen ==
    /\ DeleteThenApp
    /\ UNCHANGED <<timerVars, snackbar, dialog, preferences>>

(***************************************************************************)
(* Timer: the countdown of one record on the Landing.                      *)
(*                                                                         *)
(* A callback of setInterval or setTimeout is a task of its own.  setState *)
(* called in such a callback takes effect at once (React's legacy mode),   *)
(* so the callback of startTimer reads the time countDown has just set.    *)
(* Nothing orders the callbacks of one Timer among themselves: a tick that *)
(* is late may run shortly before the next one, and so before the timeout  *)
(* the first one has set.                                                  *)
(***************************************************************************)
\* Number.prototype.toString() of an integer.
toString(n) == IF n < 0 THEN <<"-">> \o NumToString(-n) ELSE NumToString(n)

\* The % of JavaScript: the remainder has the sign of the dividend.
Rem(a, b) == IF a >= 0 THEN a % b ELSE -((-a) % b)

\* A variant of displayNumber that adds no leading zero.
displayNumberUnpadded(value) == toString(value)

\* Timer.displayNumber: a leading zero for a text of one character.
displayNumber(value) ==
    LET number == toString(value)
    IN IF Len(number) < 2 THEN <<"0">> \o number ELSE number

\* Timer.getHours, getMinutes, getSeconds of state.time.
getHours(time) == displayNumber(time \div 3600)

getMinutes(time) == displayNumber(Rem(time, 3600) \div 60)

getSeconds(time) == displayNumber(Rem(Rem(time, 3600), 60))

\* A Timer component: its props.title, its fields and its state, with
\*   interval    the interval this.interval names is active,
\*   graces      the timeouts (160 ms) of startTimer that are pending,
\*   stale       history: how many of them were set before the last click on
\*               pause or stop (they are the first to run),
\*   started     history: startTimer was called since the mount or the last
\*               stopTimer.
\* The constructor and componentDidMount: the time is the props' time and
\* domTitle is the document title of the moment.
NewTimer(data, title) ==
    [title |-> data.title, defaultTime |-> data.time, domTitle |-> title,
     paused |-> TRUE, stopped |-> FALSE, time |-> data.time,
     interval |-> FALSE, leaked |-> 0, graces |-> 0, stale |-> 0, started |-> FALSE]

\* The text updateTitle writes to document.title.
TitleText(t) ==
    <<IF t.title # "" THEN t.title ELSE "Timer", " - ">>
    \o getHours(t.time) \o <<":">> \o getMinutes(t.time) \o <<":">> \o getSeconds(t.time)

\* A variant of countDown that counts two seconds down.
countDownSkipping(t) ==
    [t EXCEPT !.time = IF t.time - 2 < 0 THEN 0 ELSE t.time - 2]

\* A variant of countDown without the floor at 0.
countDownUnfloored(t) == [t EXCEPT !.time = t.time - 1]

\* Timer.countDown, the state: the time is one less, but not below 0.
countDown(t) == [t EXCEPT !.time = IF t.time - 1 < 0 THEN 0 ELSE t.time - 1]

\* Timer.startTimer: the state and the new interval.  this.interval holds
\* the new handle: an interval it held before is active for good (leaked).
startTimer(t) ==
    [t EXCEPT !.paused = FALSE, !.stopped = FALSE, !.interval = TRUE, !.started = TRUE,
              !.leaked = IF t.interval THEN @ + 1 ELSE @]

\* A variant of pauseTimer without clearInterval.
pauseTimerTicking(t) == [t EXCEPT !.paused = TRUE]

\* Timer.pauseTimer: the state and clearInterval.
pauseTimer(t) == [t EXCEPT !.paused = TRUE, !.interval = FALSE]

\* A variant of stopTimer that leaves the interval running.
stopTimerTicking(t) ==
    [t EXCEPT !.stopped = TRUE, !.time = t.defaultTime, !.started = FALSE]

\* Timer.stopTimer: the state and clearInterval (the document title is
\* restored by the action that calls it).
stopTimer(t) ==
    [t EXCEPT !.stopped = TRUE, !.time = t.defaultTime, !.interval = FALSE,
              !.started = FALSE]

\* The phase of a Timer.
Running(t) == ~t.paused /\ ~t.stopped

Stopped(t) == t.stopped \/ (t.paused /\ ~t.started)

Paused(t) == t.paused /\ ~t.stopped /\ t.started

\* The play/pause button: Timer.handleClick.
HandleClick(id) ==
    /\ id \in DOMAIN timers
    /\ LET t == timers[id] IN
       IF t.paused \/ t.stopped
       THEN timers' = [timers EXCEPT ![id] = startTimer(t)]
       ELSE timers' = [timers EXCEPT ![id] = [pauseTimer(t) EXCEPT !.stale = t.graces]]
    /\ UNCHANGED <<unmounted, documentTitle>>
    /\ UNCHANGED appVars

\* The stop button: Timer.stopTimer.
StopClick(id) ==
    /\ id \in DOMAIN timers
    /\ timers' = [timers EXCEPT ![id] = [stopTimer(timers[id]) EXCEPT !.stale = timers[id].graces]]
    /\ documentTitle' = timers[id].domTitle
    /\ UNCHANGED unmounted
    /\ UNCHANGED appVars

\* A variant of Tick that saves the remaining time to the Store.
TickPersisting(id) ==
    /\ id \in DOMAIN timers
    /\ timers[id].interval \/ timers[id].leaked > 0
    /\ LET t == countDown(timers[id]) IN
       /\ t.time = 0 => t.graces < MaxGraces
       /\ timers' = [timers EXCEPT ![id] = IF t.time = 0 THEN [t EXCEPT !.graces = @ + 1] ELSE t]
       /\ documentTitle' = TitleText(t)
       /\ localStorage' = SetItem(localStorage, Prefixed(NumToString(id)),
                                   JSONstringify(TimerData(id, t.time, t.title)))
    /\ UNCHANGED unmounted
    /\ UNCHANGED <<mq, mounted, landingData, stateData, sameArray, activeSlide, landingActive,
                   resetTimers, messages, addError, dialogActive, dialogId, pubCount,
                   refreshKeys, op, saved, attempt, before, snackbar, dialog, preferences>>

\* The callback of setInterval in startTimer: countDown (with updateTitle),
\* and at time 0 the timeout of stopTimer is set.
Tick(id) ==
    /\ id \in DOMAIN timers
    /\ timers[id].interval \/ timers[id].leaked > 0
    /\ LET t == countDown(timers[id]) IN
       /\ t.time = 0 => t.graces < MaxGraces
       /\ timers' = [timers EXCEPT ![id] = IF t.time = 0 THEN [t EXCEPT !.graces = @ + 1] ELSE t]
       /\ documentTitle' = TitleText(t)
    /\ UNCHANGED unmounted
    /\ UNCHANGED appVars

\* The callback of setTimeout in startTimer: stopTimer.
Grace(id) ==
    /\ id \in DOMAIN timers
    /\ timers[id].graces > 0
    /\ LET t == timers[id] IN
       /\ timers' = [timers EXCEPT ![id] =
                        [stopTimer(t) EXCEPT !.graces = t.graces - 1,
                                             !.stale = IF t.stale > 0 THEN t.stale - 1 ELSE 0]]
       /\ documentTitle' = t.domTitle
    /\ UNCHANGED unmounted
    /\ UNCHANGED appVars

\* A Timer has callbacks scheduled.
Scheduled(t) == t.interval \/ t.leaked > 0 \/ t.graces > 0

\* What an unmounted Timer still reads and writes.
Left(t) ==
    [title |-> t.title, time |-> t.time, domTitle |-> t.domTitle,
     interval |-> t.interval, leaked |-> t.leaked, graces |-> t.graces]

\* Landing.showTimers with the list it is handed (props.data), as React
\* renders it: a Timer whose key is in the list stays, with the props of the
\* list; one whose key is new is constructed and mounted; one whose key is
\* gone is unmounted.  Timer has no componentWillUnmount: what it has
\* scheduled stays scheduled.
Render(data) ==
    /\ \A r1, r2 \in data : r1.id = r2.id => r1 = r2
    /\ LET ids == {r.id : r \in data}
           of(id) == CHOOSE r \in data : r.id = id
           gone == {Left(timers[id]) :
                       id \in {i \in DOMAIN timers \ ids : Scheduled(timers[i])}}
       IN /\ ids # DOMAIN timers
          /\ Cardinality(unmounted \cup gone) <= MaxUnmounted
          /\ timers' = [id \in ids |->
                           IF id \in DOMAIN timers
                           THEN [timers[id] EXCEPT !.title = of(id).title]
                           ELSE NewTimer(of(id), documentTitle)]
          /\ unmounted' = unmounted \cup gone
    /\ UNCHANGED documentTitle
    /\ UNCHANGED appVars

\* The callback of setInterval of an unmounted Timer: React ignores the
\* setState of countDown, updateTitle writes the title with the time the
\* state has kept, and at time 0 the timeout of stopTimer is set.
UnmountedTick(g) ==
    /\ g \in unmounted
    /\ g.interval \/ g.leaked > 0
    /\ g.time = 0 => g.graces < MaxGraces
    /\ unmounted' = (unmounted \ {g})
                        \cup {IF g.time = 0 THEN [g EXCEPT !.graces = @ + 1] ELSE g}
    /\ documentTitle' = TitleText(g)
    /\ UNCHANGED timers
    /\ UNCHANGED appVars

\* The callback of setTimeout of an unmounted Timer: stopTimer, of which
\* React ignores the setState.
UnmountedGrace(g) ==
    /\ g \in unmounted
    /\ g.graces > 0
    /\ LET h == [g EXCEPT !.graces = g.graces - 1, !.interval = FALSE]
       IN unmounted' = (unmounted \ {g}) \cup (IF Scheduled(h) THEN {h} ELSE {})
    /\ documentTitle' = g.domTitle
    /\ UNCHANGED timers
    /\ UNCHANGED appVars

\* A variant of showTimers whose Timers have no key: React constructs each
\* Timer of the list anew.
showTimersUnkeyed(data, ts, title) ==
    LET shown == {i \in 1..Len(data) : ~data[i].isNull}
        of(id) == data[CHOOSE i \in shown : data[i].id = id]
    IN [id \in {data[i].id : i \in shown} |-> NewTimer(of(id), title)]

\* Landing.showTimers with the list data of the state, as React renders it
\* over the Timers ts: one Timer per record, its key the id of the record.
\* The Timer of a key that is shown stays the instance it is, with the props
\* of the list; the Timer of a new key is constructed (title is
\* document.title then).
showTimers(data, ts, title) ==
    LET shown == {i \in 1..Len(data) : ~data[i].isNull}
        of(id) == data[CHOOSE i \in shown : data[i].id = id]
    IN [id \in {data[i].id : i \in shown} |->
           IF id \in DOMAIN ts
           THEN [ts[id] EXCEPT !.title = of(id).title]
           ELSE NewTimer(of(id), title)]

\* The render of the Landing that follows setState({ landingData }): the
\* Timers of the new list, and what the Timers that are unmounted have left
\* scheduled.
RenderLanding ==
    LET next == showTimers(stateData', timers, documentTitle)
        gone == {Left(timers[id]) :
                    id \in {i \in DOMAIN timers \ DOMAIN next : Scheduled(timers[i])}}
    IN /\ Cardinality(unmounted \cup gone) <= MaxUnmounted
       /\ timers' = next
       /\ unmounted' = unmounted \cup gone
       /\ UNCHANGED <<documentTitle, snackbar, dialog, preferences>>

\* The callback of keys(), and the render of the list it may publish.
KeysThenRender ==
    /\ KeysThenApp
    /\ RenderLanding

\* The second callback of get(), and the render of the list it publishes.
PublishThenRender ==
    /\ PublishThenApp
    /\ RenderLanding

(***************************************************************************)
(* Snackbar: the messages of App.state.messages, one at a time.            *)
(*                                                                         *)
(* The Snackbar is rendered with the App, so every setState of the App is  *)
(* followed by its componentDidUpdate.  A setState in a promise callback   *)
(* or in a listener of a DOM event takes effect at once, with the render   *)
(* and componentDidUpdate inside the call; a setState in componentDidUpdate *)
(* takes effect when componentDidUpdate has returned, and is followed by   *)
(* another componentDidUpdate.  The operators work on c = [msgs, sb]: the  *)
(* array of App.state.messages, which is the context, and the Snackbar.    *)
(***************************************************************************)
\* Array.prototype.shift, the array.
shift(list) == IF list = <<>> THEN list ELSE Tail(list)

\* A variant of showSnackbarInUpdate that dispatches the message of an active
\* Snackbar without pushing it to the queue.
showSnackbarDropping(u, message, active) ==
    IF active
    THEN [u EXCEPT !.msgs = shift(@), !.changed = TRUE]
    ELSE [u EXCEPT !.sb.text = message,
                   !.sb.displayed = Append(@, message),
                   !.msgs = IF u.sb.queue = <<>> THEN shift(@) ELSE @,
                   !.sb.shown = TRUE,
                   !.sb.timeout = TRUE,
                   !.activate = TRUE,
                   !.changed = TRUE]

\* showSnackbar as componentDidUpdate calls it, where state.active stays what
\* it was (active) until componentDidUpdate returns.  u is [msgs, sb] with
\* activate: setState({ active: true }) was called, and changed: a setState
\* of the App or of the Snackbar was called.
showSnackbarInUpdate(u, message, active) ==
    IF active
    THEN [u EXCEPT !.msgs = shift(@), !.sb.queue = Append(@, message), !.changed = TRUE]
    ELSE [u EXCEPT !.sb.text = message,
                   !.sb.displayed = Append(@, message),
                   !.msgs = IF u.sb.queue = <<>> THEN shift(@) ELSE @,
                   !.sb.shown = TRUE,
                   !.sb.timeout = TRUE,
                   !.activate = TRUE,
                   !.changed = TRUE]

\* The loop of componentDidUpdate over the context, from index i on: the
\* array is the one removeMessage shifts, so the index moves on over the
\* shifted array.
RECURSIVE UpdateLoop(_, _, _)
UpdateLoop(u, i, active) ==
    IF i > Len(u.msgs) THEN u
    ELSE IF u.msgs[i] = "" THEN UpdateLoop(u, i + 1, active)
    ELSE UpdateLoop(showSnackbarInUpdate(u, u.msgs[i], active), i + 1, active)

\* Snackbar.componentDidUpdate, and the updates its setState calls bring.
RECURSIVE componentDidUpdate(_, _)
componentDidUpdate(msgs, sb) ==
    LET u == UpdateLoop([msgs |-> msgs, sb |-> sb, activate |-> FALSE, changed |-> FALSE],
                        1, sb.active)
    IN IF u.changed
       THEN componentDidUpdate(u.msgs, [u.sb EXCEPT !.active = @ \/ u.activate])
       ELSE [msgs |-> msgs, sb |-> sb]

\* showSnackbar as displayNextMessage calls it, in a listener of a DOM event.
showSnackbar(c, message) ==
    IF c.sb.active
    THEN LET d == componentDidUpdate(shift(c.msgs), c.sb)
         IN [d EXCEPT !.sb.queue = Append(@, message)]
    ELSE LET a == componentDidUpdate(c.msgs,
                     [c.sb EXCEPT !.timeout = FALSE, !.text = message,
                                  !.displayed = Append(@, message), !.active = TRUE])
             b == IF a.sb.queue = <<>> THEN componentDidUpdate(shift(a.msgs), a.sb) ELSE a
         IN [b EXCEPT !.sb.shown = TRUE, !.sb.timeout = TRUE]

\* A variant of displayNextMessage that takes the last message of the queue.
displayNextMessageLast(c) ==
    IF c.sb.queue = <<>> THEN c
    ELSE showSnackbar([c EXCEPT !.sb.queue = SubSeq(@, 1, Len(@) - 1)],
                      c.sb.queue[Len(c.sb.queue)])

\* Snackbar.displayNextMessage.
displayNextMessage(c) ==
    IF c.sb.queue = <<>> THEN c
    ELSE showSnackbar([c EXCEPT !.sb.queue = Tail(@)], Head(c.sb.queue))

\* The listener waitForTransition of hideSnackbar, which removes itself.
waitForTransition(c) ==
    LET a == componentDidUpdate(c.msgs, [c.sb EXCEPT !.timeout = FALSE, !.active = FALSE])
        b == displayNextMessage(a)
    IN [b EXCEPT !.sb.listeners = @ - 1]

\* Snackbar.hideSnackbar: the class is removed and the listener is added.
hideSnackbar(sb) == [sb EXCEPT !.shown = FALSE, !.listeners = @ + 1]

\* The messages of Add.saveTimer and Landing.deleteTimer.
MessageTexts == {"Timer successfully added", "Timer successfully removed"}

\* App.showMessage, called in the callback of a create or of a delete.
ShowMessage(message) ==
    /\ mounted /\ mq = <<>>
    /\ Len(snackbar.received) < MaxReceived
    /\ LET c == componentDidUpdate(Append(messages, message),
                                   [snackbar EXCEPT !.received = Append(@, message)])
       IN /\ messages' = c.msgs
          /\ snackbar' = c.sb
    /\ UNCHANGED <<localStorage, mq, mounted, landingData, stateData, sameArray, activeSlide,
                   landingActive, resetTimers, addError, dialogActive, dialogId, pubCount,
                   refreshKeys, op, saved, attempt, before>>
    /\ UNCHANGED <<timerVars, dialog, preferences>>

\* The timeout of showSnackbar (5000 ms): hideSnackbar.
HideTimeout ==
    /\ mq = <<>>
    /\ snackbar.timeout
    /\ snackbar.listeners < MaxListeners
    /\ snackbar' = hideSnackbar([snackbar EXCEPT !.timeout = FALSE])
    /\ UNCHANGED <<localStorage, mq, mounted, landingData, stateData, sameArray, activeSlide,
                   landingActive, resetTimers, messages, addError, dialogActive, dialogId,
                   pubCount, refreshKeys, op, saved, attempt, before>>
    /\ UNCHANGED <<timerVars, dialog, preferences>>

\* The close button of the Snackbar that is shown: hideSnackbar.
CloseClick ==
    /\ mq = <<>>
    /\ snackbar.shown
    /\ snackbar.listeners < MaxListeners
    /\ snackbar' = hideSnackbar(snackbar)
    /\ UNCHANGED <<localStorage, mq, mounted, landingData, stateData, sameArray, activeSlide,
                   landingActive, resetTimers, messages, addError, dialogActive, dialogId,
                   pubCount, refreshKeys, op, saved, attempt, before>>
    /\ UNCHANGED <<timerVars, dialog, preferences>>

\* Snackbar.keyboardEvents with the key Escape: hideSnackbar while the state
\* is active.
EscapeKey ==
    /\ mq = <<>>
    /\ snackbar.active
    /\ snackbar.listeners < MaxListeners
    /\ snackbar' = hideSnackbar(snackbar)
    /\ UNCHANGED <<localStorage, mq, mounted, landingData, stateData, sameArray, activeSlide,
                   landingActive, resetTimers, messages, addError, dialogActive, dialogId,
                   pubCount, refreshKeys, op, saved, attempt, before>>
    /\ UNCHANGED <<timerVars, dialog, preferences>>

\* What the listeners of one 'transitionend' event leave: each listener that
\* hideSnackbar has added is called.
RECURSIVE Listeners(_, _)
Listeners(c, n) == IF n = 0 THEN c ELSE Listeners(waitForTransition(c), n - 1)

\* The transition of the container ends.
TransitionEnd ==
    /\ mq = <<>>
    /\ snackbar.listeners > 0
    /\ LET c == Listeners([msgs |-> messages, sb |-> snackbar], snackbar.listeners)
       IN /\ messages' = c.msgs
          /\ snackbar' = c.sb
    /\ UNCHANGED <<localStorage, mq, mounted, landingData, stateData, sameArray, activeSlide,
                   landingActive, resetTimers, addError, dialogActive, dialogId, pubCount,
                   refreshKeys, op, saved, attempt, before>>
    /\ UNCHANGED <<timerVars, dialog, preferences>>

(***************************************************************************)
(* Dialog: the remove dialog of the Landing.                               *)
(*                                                                         *)
(* The Landing renders the Dialog while its state dialogActive is true.    *)
(* cancelDialog is a setState of the Landing: called in a handler of       *)
(* React (the buttons and the backdrop of the Dialog) it takes effect when *)
(* the handler has returned, called in the listener of 'keydown' (Escape)  *)
(* or in a promise callback (deleteTimer) it takes effect at once.  The    *)
(* Dialog is then unmounted: its container leaves the document.            *)
(***************************************************************************)
\* A variant of focusNextElem that does not wrap around.
focusNextElemUnwrapped(d) ==
    [d EXCEPT !.focusIndex = IF d.focusIndex >= 0 THEN d.focusIndex + 1 ELSE d.focusIndex,
              !.focus = "dialog"]

\* Dialog.focusNextElem (with setFocusOnElem).
focusNextElem(d) ==
    [d EXCEPT !.focusIndex = IF d.focusIndex = d.focusable - 1 THEN 0
                             ELSE IF d.focusIndex >= 0 THEN d.focusIndex + 1
                             ELSE d.focusIndex,
              !.focus = "dialog"]

\* Dialog.focusPreviousElem (with setFocusOnElem).
focusPreviousElem(d) ==
    [d EXCEPT !.focusIndex = IF d.focusIndex >= 1 THEN d.focusIndex - 1
                             ELSE IF d.focusIndex = 0 THEN d.focusable - 1
                             ELSE d.focusIndex,
              !.focus = "dialog"]

\* Dialog.componentDidMount with Dialog.open, for a Dialog that is mounted
\* after d: n elements are focusable, the control that opened the dialog has
\* the focus.  The class on the scrollbar parent is what d has left.
open(d, keyboard, n) ==
    [mounted |-> TRUE, keyboard |-> keyboard, focusable |-> n, focusIndex |-> 0,
     containerActive |-> TRUE, fadeIn |-> FALSE, fadeInPending |-> TRUE,
     scrollLocked |-> TRUE, listeners |-> 0,
     focus |-> IF keyboard THEN "dialog" ELSE "opener", lastActive |-> "opener",
     closed |-> FALSE]

\* Dialog.close: with a container, the class of the fade-in is removed and a
\* listener afterFadeOut is added.
close(d) ==
    IF d.mounted
    THEN [d EXCEPT !.fadeIn = FALSE, !.listeners = @ + 1]
    ELSE d

\* The listener afterFadeOut of Dialog.close, which removes itself.
afterFadeOut(d) ==
    [d EXCEPT !.containerActive = FALSE,
              !.scrollLocked = FALSE,
              !.focus = IF d.keyboard THEN d.lastActive ELSE @,
              !.listeners = @ - 1]

\* The Landing renders without the Dialog: componentWillUnmount, and the
\* container leaves the document with its classes and its listeners.  The
\* focus of an element of the dialog falls to the body.
unmount(d) ==
    [d EXCEPT !.mounted = FALSE, !.containerActive = FALSE, !.fadeIn = FALSE,
              !.listeners = 0,
              !.focus = IF @ = "dialog" THEN "body" ELSE @]

\* Landing.openDialog (keyboard false) and openKbDialog (keyboard true) of a
\* shown timer: the Dialog is mounted and opens.
DialogOpen(id, keyboard, n) ==
    /\ OpenDialogApp(id)
    /\ dialog' = open(dialog, keyboard, n)
    /\ UNCHANGED <<timerVars, snackbar, preferences>>

\* The timeout of Dialog.open (60 ms): the class of the fade-in is added to
\* the container, if there is one.
DialogFadeIn ==
    /\ mq = <<>>
    /\ dialog.fadeInPending
    /\ dialog' = [dialog EXCEPT !.fadeInPending = FALSE,
                                !.fadeIn = IF dialog.mounted THEN TRUE ELSE @]
    /\ UNCHANGED <<localStorage, mq, mounted, landingData, stateData, sameArray, activeSlide,
                   landingActive, resetTimers, messages, addError, dialogActive, dialogId,
                   pubCount, refreshKeys, op, saved, attempt, before>>
    /\ UNCHANGED <<timerVars, snackbar, preferences>>

\* A click on the close button, the cancel button or the backdrop:
\* Dialog.cancel in a handler of React.  onCancel is Landing.cancelDialog,
\* close finds the container, and then the Dialog is unmounted.
CancelClick ==
    /\ dialog.mounted /\ dialog.containerActive
    /\ CancelDialogApp
    /\ dialog' = unmount(close([dialog EXCEPT !.closed = TRUE]))
    /\ UNCHANGED <<timerVars, snackbar, preferences>>

\* Dialog.keyboardEvents with the key Escape, in the listener of 'keydown' of
\* the container: Dialog.cancel.  onCancel unmounts the Dialog, and close
\* finds no container.
DialogEscape ==
    /\ dialog.mounted /\ dialog.keyboard /\ dialog.focus = "dialog"
    /\ CancelDialogApp
    /\ dialog' = close(unmount([dialog EXCEPT !.closed = TRUE]))
    /\ UNCHANGED <<timerVars, snackbar, preferences>>

\* A click on the confirm button: Dialog.confirm.  onConfirm is
\* Landing.deleteTimer, which returns when Storage.delete awaits, and close
\* finds the container.
ConfirmClick ==
    /\ dialog.mounted /\ dialog.containerActive
    /\ dialog.listeners < MaxClosing
    /\ deleteTimerApp
    /\ dialog' = close([dialog EXCEPT !.closed = TRUE])
    /\ UNCHANGED <<timerVars, snackbar, preferences>>

\* The callback of delete(): cancelDialog unmounts the Dialog.
DeleteThenUnmount ==
    /\ DeleteThenApp
    /\ dialog' = unmount(dialog)
    /\ UNCHANGED <<timerVars, snackbar, preferences>>

\* Storage.delete after its await, when localStorage.removeItem throws: the
\* promise is rejected and the callback of deleteTimer is not called.
DeleteResumeThrowing ==
    /\ mq # <<>> /\ Head(mq).kind = "deleteResume"
    /\ mq' = Tail(mq)
    /\ attempt' = NoAttempt
    /\ UNCHANGED <<localStorage, mounted, landingData, stateData, sameArray, activeSlide,
                   landingActive, resetTimers, messages, addError, dialogActive, dialogId,
                   pubCount, refreshKeys, op, saved, before>>
    /\ UNCHANGED <<timerVars, snackbar, dialog, preferences>>

\* What the listeners of one 'transitionend' event of the container leave.
RECURSIVE AfterFadeOuts(_, _)
AfterFadeOuts(d, n) == IF n = 0 THEN d ELSE AfterFadeOuts(afterFadeOut(d), n - 1)

\* The fade-out of the container, which is in the document, ends.
DialogTransitionEnd ==
    /\ mq = <<>>
    /\ dialog.mounted /\ dialog.listeners > 0
    /\ ~dialog.fadeIn /\ ~dialog.fadeInPending
    /\ dialog' = AfterFadeOuts(dialog, dialog.listeners)
    /\ UNCHANGED <<localStorage, mq, mounted, landingData, stateData, sameArray, activeSlide,
                   landingActive, resetTimers, messages, addError, dialogActive, dialogId,
                   pubCount, refreshKeys, op, saved, attempt, before>>
    /\ UNCHANGED <<timerVars, snackbar, preferences>>

\* Dialog.keyboardEvents with the key Tab: focusNextElem.
TabKey ==
    /\ mq = <<>>
    /\ dialog.mounted /\ dialog.keyboard /\ dialog.focus = "dialog"
    /\ dialog' = focusNextElem(dialog)
    /\ UNCHANGED <<localStorage, mq, mounted, landingData, stateData, sameArray, activeSlide,
                   landingActive, resetTimers, messages, addError, dialogActive, dialogId,
                   pubCount, refreshKeys, op, saved, attempt, before>>
    /\ UNCHANGED <<timerVars, snackbar, preferences>>

\* Dialog.keyboardEvents with the keys Shift and Tab: focusPreviousElem.
ShiftTabKey ==
    /\ mq = <<>>
    /\ dialog.mounted /\ dialog.keyboard /\ dialog.focus = "dialog"
    /\ dialog' = focusPreviousElem(dialog)
    /\ UNCHANGED <<localStorage, mq, mounted, landingData, stateData, sameArray, activeSlide,
                   landingActive, resetTimers, messages, addError, dialogActive, dialogId,
                   pubCount, refreshKeys, op, saved, attempt, before>>
    /\ UNCHANGED <<timerVars, snackbar, preferences>>

(***************************************************************************)
(* Preferences: the slide that sets the accent, the gradient and the theme. *)
(***************************************************************************)
\* Some of PreferencesManager.accents and PreferencesManager.gradients.
Accents == {"teal", "red"}
Gradients == {"KyeMeh", "Yoda"}

\* Preferences.setAccent, a click on a colour of the mounted slide.
\* removeClassByPrefix leaves no accent class on the body, which has at most
\* one.
SetAccent(accent) ==
    /\ mounted /\ mq = <<>>
    /\ activeSlide = "preferences"
    /\ preferences' = [preferences EXCEPT
           !.accentClasses = {<<accent>>}]
    /\ localStorage' = SetItem(localStorage, AccentKey, <<accent>>)
    /\ UNCHANGED <<mq, mounted, landingData, stateData, sameArray, activeSlide,
                   landingActive, resetTimers, messages, addError, dialogActive, dialogId,
                   pubCount, refreshKeys, op, saved, attempt, before>>
    /\ UNCHANGED <<timerVars, snackbar, dialog>>

\* Preferences.setGradient, a click on a gradient of the mounted slide.
\* removeClassByPrefix leaves no gradient class on the app container, which
\* has at most one.
SetGradient(gradient) ==
    /\ mounted /\ mq = <<>>
    /\ activeSlide = "preferences"
    /\ preferences' = [preferences EXCEPT
           !.gradientClasses = {<<gradient>>}]
    /\ localStorage' = SetItem(localStorage, GradientKey, <<gradient>>)
    /\ UNCHANGED <<mq, mounted, landingData, stateData, sameArray, activeSlide,
                   landingActive, resetTimers, messages, addError, dialogActive, dialogId,
                   pubCount, refreshKeys, op, saved, attempt, before>>
    /\ UNCHANGED <<timerVars, snackbar, dialog>>

\* Preferences.toggleTheme, a change of the switch of the mounted slide.
ToggleTheme ==
    /\ mounted /\ mq = <<>>
    /\ activeSlide = "preferences"
    /\ LET theme == get(localStorage, ThemeKey)
       IN IF ~theme.null /\ theme.value = <<"light">>
          THEN /\ preferences' = [preferences EXCEPT !.dark = TRUE]
               /\ localStorage' = SetItem(localStorage, ThemeKey, <<"dark">>)
          ELSE /\ preferences' = [preferences EXCEPT !.dark = FALSE]
               /\ localStorage' = SetItem(localStorage, ThemeKey, <<"light">>)
    /\ UNCHANGED <<mq, mounted, landingData, stateData, sameArray, activeSlide,
                   landingActive, resetTimers, messages, addError, dialogActive, dialogId,
                   pubCount, refreshKeys, op, saved, attempt, before>>
    /\ UNCHANGED <<timerVars, snackbar, dialog>>

(***************************************************************************)
(* The specifications.                                                     *)
(***************************************************************************)
\* What the inputs of the Add slide hold in Spec.
TitleInputs == {"", "Tea"}
HoursInputs == {NaNv}
MinutesInputs == {NaNv, Num(5)}
SecondsInputs == {Num(0)}

\* What Date.now() returns in Spec.
ClockInputs == {9, 10}

\* The draws <<rnd, now>> of the id generator in Spec: the random value and
\* the clock, kept to the draws whose id is within MaxRandom of the earliest
\* clock value (two draws may give one id: <<1, 9>> and <<0, 10>>).
UuidDraws == {d \in (0..MaxRandom) \X ClockInputs : d[1] + d[2] <= 9 + MaxRandom}

SlideNames == {"add", "preferences"}

\* The promise jobs.
Microtask ==
    \/ KeysResume
    \/ KeysThen
    \/ GetResume
    \/ PushThen
    \/ PublishThen
    \/ SetResume
    \/ SaveThen
    \/ DeleteResume
    \/ DeleteThen

\* The tasks other than saveTimer.
Task ==
    \/ Mount
    \/ Reload
    \/ \E name \in SlideNames : OpenSlide(name)
    \/ GoBackClick
    \/ ResetTimeout
    \/ RemoveMessage
    \/ HandleChange
    \/ \E id \in ShownIds : OpenDialog(id)
    \/ CancelDialog
    \/ deleteTimer

Next ==
    \/ Microtask
    \/ Task
    \/ \E title \in TitleInputs, h \in HoursInputs, m \in MinutesInputs, s \in SecondsInputs,
          d \in UuidDraws :
          saveTimer(title, h, m, s, d[1], d[2])

Spec == Init /\ [][Next]_vars

\* What the number inputs of the Add slide hold in SpecAdd: empty (NaN) or a
\* number of the range.
HoursRange == {NaNv} \cup {Num(n) : n \in 0..MaxHours}
MinutesRange == {NaNv} \cup {Num(n) : n \in 0..MaxMinutes}
SecondsRange == {NaNv} \cup {Num(n) : n \in 0..MaxSeconds}

\* The Add slide with every duration of the ranges, one title and one draw
\* of the id generator: the page is mounted, the slide is opened, timers are
\* saved and the landing data is refreshed.
NextAdd ==
    \/ Mount
    \/ KeysResume
    \/ KeysThen
    \/ GetResume
    \/ PushThen
    \/ PublishThen
    \/ OpenSlide("add")
    \/ HandleChange
    \/ ResetTimeout
    \/ RemoveMessage
    \/ SetResume
    \/ SaveThen
    \/ \E h \in HoursRange, m \in MinutesRange, s \in SecondsRange :
          saveTimer("", h, m, s, 0, 9)

SpecAdd == Init /\ [][NextAdd]_vars

\* The Store in which earlier visits have left the given records.
StoreWith(records) ==
    LET defaults == SetDefaults(<<>>)
        keyOf(r) == Prefixed(SaveKey(r))
    IN [k \in DOMAIN defaults \cup {keyOf(r) : r \in records} |->
           IF k \in DOMAIN defaults THEN defaults[k]
           ELSE JSONstringify(CHOOSE r \in records : keyOf(r) = k)]

\* The records the Landing is handed in SpecTimer.
TimerRecords == {TimerData(9, 1, "Tea"), TimerData(10, 1, "")}

\* The Timers of the Landing: the Store holds the records, and the list the
\* Landing is handed is any list of them.
InitTimer ==
    /\ Fresh
    /\ localStorage = StoreWith(TimerRecords)

\* A list is rendered while the Timers that leave have nothing scheduled.
RenderIdle(data) ==
    /\ \A id \in DOMAIN timers \ {r.id : r \in data} : ~Scheduled(timers[id])
    /\ Render(data)

NextTimer ==
    \/ \E data \in SUBSET TimerRecords : RenderIdle(data)
    \/ \E id \in DOMAIN timers : HandleClick(id)
    \/ \E id \in DOMAIN timers : StopClick(id)
    \/ \E id \in DOMAIN timers : Tick(id)
    \/ \E id \in DOMAIN timers : Grace(id)

SpecTimer == InitTimer /\ [][NextTimer]_vars

\* A page that shows the Timer of the one record of the Store.
OneTimer(record) ==
    /\ localStorage = StoreWith({record})
    /\ mq = <<>>
    /\ mounted = TRUE
    /\ landingData = <<record>>
    /\ stateData = <<record>>
    /\ sameArray = TRUE
    /\ activeSlide = "null"
    /\ landingActive = TRUE
    /\ resetTimers = 0
    /\ messages = <<>>
    /\ addError = FALSE
    /\ dialogActive = FALSE
    /\ dialogId = 0
    /\ pubCount = 1
    /\ refreshKeys = <<Prefixed(SaveKey(record))>>
    /\ op = "mount"
    /\ saved = Null
    /\ attempt = NoAttempt
    /\ before = <<>>
    /\ timers = [id \in {record.id} |-> NewTimer(record, PageTitle)]
    /\ unmounted = {}
    /\ documentTitle = PageTitle
    /\ snackbar = NewSnackbar
    /\ dialog = NoDialog
    /\ preferences = NoPreferences

\* One Timer and its buttons.
InitCountdown == OneTimer(TimerData(9, MaxCountdown, "Tea"))

NextCountdown ==
    \/ HandleClick(9)
    \/ StopClick(9)
    \/ Tick(9)
    \/ Grace(9)

SpecCountdown == InitCountdown /\ [][NextCountdown]_vars

\* One Timer that is deleted and created again while it runs.
UnmountRecord == TimerData(9, 1, "Tea")

InitUnmount == OneTimer(UnmountRecord)

NextUnmount ==
    \/ \E data \in SUBSET {UnmountRecord} : Render(data)
    \/ HandleClick(9)
    \/ StopClick(9)
    \/ Tick(9)
    \/ Grace(9)
    \/ \E g \in unmounted : UnmountedTick(g)
    \/ \E g \in unmounted : UnmountedGrace(g)

SpecUnmount == InitUnmount /\ [][NextUnmount]_vars

\* Storage.set after its await when localStorage.setItem throws (the quota
\* of the origin is used up): the promise of set is rejected, the callback
\* of saveTimer is not called, and nothing handles the rejection.
SetResumeThrowing ==
    /\ mq # <<>> /\ Head(mq).kind = "setResume"
    /\ mq' = Tail(mq)
    /\ attempt' = NoAttempt
    /\ UNCHANGED <<localStorage, mounted, landingData, stateData, sameArray, activeSlide,
                   landingActive, resetTimers, messages, addError, dialogActive, dialogId,
                   pubCount, refreshKeys, op, saved, before>>
    /\ UNCHANGED <<timerVars, snackbar, dialog, preferences>>

\* The App on a Store whose writes may fail.
NextFailing ==
    \/ Next
    \/ SetResumeThrowing

SpecFailing == Init /\ [][NextFailing]_vars

\* The page with its Timers: the Store holds one record, a second timer is
\* created and timers that have nothing scheduled are deleted, while the
\* Timer of the first record is played, paused, stopped and counts down
\* between the promise jobs of the page.
RefreshRecord == TimerData(9, 1, "Tea")

InitRefresh ==
    /\ Fresh
    /\ localStorage = StoreWith({RefreshRecord})

\* The timer of the dialog is deleted while its Timer has nothing scheduled.
DeleteIdle ==
    /\ dialogId \in DOMAIN timers
    /\ ~Scheduled(timers[dialogId])
    /\ deleteTimer

NextRefresh ==
    \/ Mount
    \/ KeysResume
    \/ KeysThenRender
    \/ GetResume
    \/ PushThen
    \/ PublishThenRender
    \/ OpenSlide("add")
    \/ saveTimer("", NaNv, NaNv, Num(1), 1, 9)
    \/ SetResume
    \/ SaveThen
    \/ ResetTimeout
    \/ RemoveMessage
    \/ \E id \in ShownIds : OpenDialog(id)
    \/ DeleteIdle
    \/ DeleteResume
    \/ DeleteThen
    \/ mq = <<>> /\ HandleClick(RefreshRecord.id)
    \/ mq = <<>> /\ StopClick(RefreshRecord.id)
    \/ mq = <<>> /\ Tick(RefreshRecord.id)
    \/ mq = <<>> /\ Grace(RefreshRecord.id)

SpecRefresh == InitRefresh /\ [][NextRefresh]_vars

\* The Snackbar of the mounted page: messages arrive, and the Snackbar is
\* hidden by its timeout, its button and the Escape key.
NextSnackbar ==
    \/ Mount
    \/ KeysResume
    \/ KeysThen
    \/ \E message \in MessageTexts : ShowMessage(message)
    \/ HideTimeout
    \/ CloseClick
    \/ EscapeKey
    \/ TransitionEnd

SpecSnackbar == Init /\ [][NextSnackbar]_vars

\* The Snackbar whose timeouts fire and whose transitions end: the page is
\* mounted, a timeout that is set fires, and the transition of a hide ends.
\* What the user does (close button, Escape key) may or may not happen.
SpecSnackbarFair ==
    /\ SpecSnackbar
    /\ WF_vars(Mount) /\ WF_vars(KeysResume) /\ WF_vars(KeysThen)
    /\ WF_vars(HideTimeout)
    /\ WF_vars(TransitionEnd)

\* Another page of the same origin (a second tab that runs the App) shares
\* localStorage: its Storage.delete removes the entry of one of its timers,
\* at any moment between two jobs or tasks of this page.
OtherPageDelete(key) ==
    /\ key \in StorageKeys(localStorage)
    /\ localStorage' = RemoveItem(localStorage, key)
    /\ UNCHANGED <<mq, mounted, landingData, stateData, sameArray, activeSlide, landingActive,
                   resetTimers, messages, addError, dialogActive, dialogId, pubCount,
                   refreshKeys, op, saved, attempt, before>>
    /\ UNCHANGED <<timerVars, snackbar, dialog, preferences>>

\* The Landing of a page whose Store is shared with another page: the list
\* is loaded and timers are removed on both pages.
InitShared ==
    /\ Fresh
    /\ localStorage = StoreWith(TimerRecords)

NextShared ==
    \/ Mount
    \/ KeysResume
    \/ KeysThen
    \/ GetResume
    \/ PushThen
    \/ PublishThen
    \/ \E id \in ShownIds : OpenDialog(id)
    \/ CancelDialog
    \/ deleteTimer
    \/ DeleteResume
    \/ DeleteThen
    \/ RemoveMessage
    \/ \E key \in StorageKeys(localStorage) : OtherPageDelete(key)

SpecShared == InitShared /\ [][NextShared]_vars

\* The remove dialog of a page whose Store holds two records: the dialog is
\* opened by click or by key, with any number of focusable elements up to
\* MaxFocusable, the focus is moved by Tab, and the dialog is closed by its
\* buttons or by Escape; the removal of a delete may fail.
NextDialog ==
    \/ Mount
    \/ KeysResume
    \/ KeysThen
    \/ GetResume
    \/ PushThen
    \/ PublishThen
    \/ RemoveMessage
    \/ \E id \in ShownIds, keyboard \in BOOLEAN, n \in 1..MaxFocusable :
          DialogOpen(id, keyboard, n)
    \/ DialogFadeIn
    \/ DialogEscape
    \/ CancelClick
    \/ ConfirmClick
    \/ DeleteResume
    \/ DeleteResumeThrowing
    \/ DeleteThenUnmount
    \/ DialogTransitionEnd
    \/ TabKey
    \/ ShiftTabKey

SpecDialog == InitShared /\ [][NextDialog]_vars

\* The remove dialog when the page does what it has scheduled: the promise
\* jobs run, the timeout of open fires and a transition of the container
\* that is in the document ends.  What the user does may or may not happen.
SpecDialogFair ==
    /\ SpecDialog
    /\ WF_vars(Mount) /\ WF_vars(KeysResume) /\ WF_vars(KeysThen) /\ WF_vars(GetResume)
    /\ WF_vars(PushThen) /\ WF_vars(PublishThen)
    /\ WF_vars(DeleteResume \/ DeleteResumeThrowing) /\ WF_vars(DeleteThenUnmount)
    /\ WF_vars(DialogFadeIn)
    /\ WF_vars(DialogTransitionEnd)

\* A freshly loaded page that finds one or more of the settings without a
\* value, and the others with one of their values.  A store with all three
\* settings is what a session leaves.
InitPreferences ==
    /\ localStorage \in
         {ls \in UNION {[K -> {<<v>> : v \in Accents \cup Gradients \cup {"light", "dark"}}] :
                            K \in SUBSET {AccentKey, GradientKey, ThemeKey}} :
             /\ DOMAIN ls # {AccentKey, GradientKey, ThemeKey}
             /\ AccentKey \in DOMAIN ls => ls[AccentKey] \in {<<v>> : v \in Accents}
             /\ GradientKey \in DOMAIN ls => ls[GradientKey] \in {<<v>> : v \in Gradients}
             /\ ThemeKey \in DOMAIN ls => ls[ThemeKey] \in {<<"light">>, <<"dark">>}}
    /\ Fresh

\* The preferences of a page without timers: the App mounts, the slide is
\* opened and closed, the settings are changed, the page is loaded again.
NextPreferences ==
    \/ Mount
    \/ KeysResume
    \/ KeysThen
    \/ OpenSlide("preferences")
    \/ GoBackClick
    \/ ResetTimeout
    \/ \E accent \in Accents : SetAccent(accent)
    \/ \E gradient \in Gradients : SetGradient(gradient)
    \/ ToggleTheme
    \/ Reload

SpecPreferences == InitPreferences /\ [][NextPreferences]_vars

\* The play button while the Timer does not run and has nothing scheduled
\* from an earlier run.
StartClick(id) ==
    /\ id \in DOMAIN timers
    /\ timers[id].paused \/ timers[id].stopped
    /\ ~Scheduled(timers[id])
    /\ HandleClick(id)

\* One Timer that is started and left to run: the browser runs every
\* callback that is due.
InitRun == OneTimer(TimerData(9, MaxDisplayTime, ""))

NextRun ==
    \/ StartClick(9)
    \/ Tick(9)
    \/ Grace(9)

SpecRun == InitRun /\ [][NextRun]_vars /\ WF_vars(Tick(9)) /\ WF_vars(Grace(9))

(***************************************************************************)
(* The properties.                                                         *)
(***************************************************************************)
\* A missing (NaN) component counts as 0.
Val(x) == IF x.nan THEN 0 ELSE x.v

\* How often a record occurs in a list.
Occurrences(list, r) == Cardinality({i \in 1..Len(list) : list[i] = r})

\* The Store key of a record: the prefix, the separator and the id.
RecordKey(r) == Prefix \o <<"-">> \o NumToString(r.id)

\* The promise jobs of a kind that are pending.
Pending(kind) == {i \in 1..Len(mq) : mq[i].kind = kind}

\* C1: every call of getLandingData publishes the list exactly once, and
\* only after all fetches have returned: at most one publication per call,
\* none while a fetch is pending or a record is not yet collected, and one
\* when the refresh has completed.
C1_PublishedExactlyOnce ==
    /\ pubCount <= 1
    /\ pubCount >= 1 => Pending("getResume") = {} /\ Len(landingData) = Len(refreshKeys)
    /\ (mounted /\ mq = <<>>) => pubCount = 1

\* C2: no published list is partial: whenever the current refresh has
\* published, the published list has a record for every key its enumeration
\* found, and nothing more.
C2_NoPartialList ==
    pubCount >= 1 =>
        /\ Len(stateData) = Len(refreshKeys)
        /\ \A i \in 1..Len(refreshKeys) :
              \E j \in 1..Len(stateData) :
                  /\ ~stateData[j].isNull
                  /\ RecordKey(stateData[j]) = refreshKeys[i]

C2_TwoKeysFirstPublication ==
    /\ pubCount = 1
    /\ Len(refreshKeys) = 2
    /\ Pending("publishThen") # {}

\* C3: when the refresh has completed and nothing is in flight, the
\* published list holds every record of the Store under the timer prefix
\* exactly once, and nothing else.
C3_ListIsStore ==
    (mounted /\ mq = <<>>) =>
        /\ Len(stateData) = Cardinality(StorageKeys(localStorage))
        /\ \A k \in StorageKeys(localStorage) :
              Occurrences(stateData, JSONparse(localStorage[k])) = 1

C3_ReloadedWithTwoTimers ==
    /\ mounted /\ mq = <<>>
    /\ op = "mount"
    /\ Len(stateData) = 2

\* C4: what the refresh of a delete publishes has no record with the
\* deleted id and has every other record the Store held before the delete.
C4_DeletedNotListed ==
    (op = "deleted" /\ pubCount >= 1) =>
        /\ \A j \in 1..Len(stateData) : stateData[j].isNull \/ stateData[j].id # dialogId
        /\ \A k \in StorageKeys(before) :
              JSONparse(before[k]).id # dialogId =>
                  Occurrences(stateData, JSONparse(before[k])) = 1

C4_DeletedOneOfTwo ==
    /\ op = "deleted" /\ mq = <<>>
    /\ Cardinality(StorageKeys(before)) = 2
    /\ Len(stateData) = 1
    /\ stateData[1].id # dialogId

\* C5: the total saveTimer computes is h*3600 + m*60 + s, a missing
\* component counting as 0, and a total of 0 fails the validation.
C5_TotalSeconds ==
    attempt.made =>
        LET total == Val(attempt.h) * 3600 + Val(attempt.m) * 60 + Val(attempt.s) IN
        /\ attempt.time = Num(total)
        /\ total = 0 => ~attempt.accepted /\ addError
        /\ total > 0 => attempt.accepted /\ saved.time = total

C5_HourAndSeconds ==
    /\ attempt.made /\ attempt.accepted
    /\ attempt.h = Num(1) /\ attempt.m = NaNv /\ attempt.s = Num(2)
    /\ attempt.time = Num(3602)

\* C6: a saveTimer whose total is not a number or not positive sets the
\* error, generates no id, leaves the Store and the promise jobs as they
\* are, does not go back, starts no refresh and adds no message.
C6_RejectedLocally ==
    [][(attempt'.made /\ (attempt'.time.nan \/ attempt'.time.v <= 0)) =>
          /\ ~attempt'.accepted
          /\ addError'
          /\ attempt'.id = 0
          /\ localStorage' = localStorage
          /\ mq' = mq
          /\ landingActive' = landingActive
          /\ resetTimers' = resetTimers
          /\ activeSlide' = activeSlide
          /\ messages' = messages
          /\ landingData' = landingData
          /\ stateData' = stateData
          /\ pubCount' = pubCount]_vars

C6_RejectedWithTimersStored ==
    /\ attempt.made /\ ~attempt.accepted
    /\ attempt.time = Num(0)
    /\ addError
    /\ TimerCount >= 1

\* C7: every timer record in the Store has a time that is an integer
\* greater than 0.
C7_StoredTimePositive ==
    \A k \in StorageKeys(localStorage) :
        LET r == JSONparse(localStorage[k]) IN
        /\ ~r.isNull
        /\ r.time \in Nat
        /\ r.time > 0

C7_TwoTimersStored ==
    /\ TimerCount = 2
    /\ mq = <<>>
    /\ op = "created"

\* C8: no two records in the Store have the same id: the records of the
\* Store have as many ids as there are records.
C8_UniqueIds ==
    LET keys == StorageKeys(localStorage) IN
    Cardinality({JSONparse(localStorage[k]).id : k \in keys}) = Cardinality(keys)

C8_CreatedWithStoredId ==
    /\ op = "created"
    /\ RecordKey(saved) \in StorageKeys(before)
    /\ TimerCount = 2

\* C9: a record is never mutated in place: as long as an id stays in the
\* Store, the time and the title stored for it do not change.
C9_NeverMutated ==
    [][\A k \in StorageKeys(localStorage) \cap StorageKeys(localStorage') :
          /\ JSONparse(localStorage'[k]).time = JSONparse(localStorage[k]).time
          /\ JSONparse(localStorage'[k]).title = JSONparse(localStorage[k]).title]_vars

\* C10: an accepted saveTimer builds the record {id, time = total, title =
\* the title or ''}; the refresh is started only when the record has been
\* written; what that refresh publishes has the record once, and is the
\* record alone when the Store was empty.
C10_CreatedAndListed ==
    /\ (attempt.made /\ attempt.accepted) =>
          saved = TimerData(attempt.id,
                            Val(attempt.h) * 3600 + Val(attempt.m) * 60 + Val(attempt.s),
                            IF attempt.title = "" THEN "" ELSE attempt.title)
    /\ op = "creating" => Pending("keysResume") = {}
    /\ op = "created" => JSONparse(GetItem(localStorage, RecordKey(saved))) = saved
    /\ (op = "created" /\ pubCount >= 1) =>
          /\ Occurrences(stateData, saved) = 1
          /\ StorageKeys(before) = {} => stateData = <<saved>>

C10_TeaCreatedFirst ==
    /\ op = "created" /\ mq = <<>>
    /\ StorageKeys(before) = {}
    /\ saved = TimerData(saved.id, 300, "Tea")
    /\ stateData = <<saved>>


(***************************************************************************)
(* The Timers.                                                             *)
(***************************************************************************)

\* C11: no step of a Timer (start, pause, stop, tick, the stop after the
\* last tick) and no render of the list changes a key or a value of the
\* Store.
C11_RuntimeNeverWrites == [][localStorage' = localStorage]_vars

\* One Timer has ticked to 0, the other has been stopped, and the Store
\* holds what it held.
C11_TickedAndStopped ==
    /\ DOMAIN timers = {9, 10}
    /\ timers[9].time = 0
    /\ timers[9].graces > 0
    /\ timers[10].stopped
    /\ localStorage = StoreWith(TimerRecords)

\* C12: the remaining time of a Timer is at least 0 and at most the time of
\* its record in every state, and a tick at 0 leaves it at 0.
C12_RemainingInRange ==
    /\ [](\A id \in DOMAIN timers :
            timers[id].time >= 0 /\ timers[id].time <= timers[id].defaultTime)
    /\ [][Tick(9) /\ timers[9].time = 0 => timers'[9].time = 0]_vars

\* The Timer is at 0 after two ticks that found or left it there: the second
\* of them was a tick at 0.
C12_TickedAtZero ==
    /\ timers[9].time = 0
    /\ timers[9].interval
    /\ timers[9].graces = 2

\* C13: a Timer that is started and neither paused nor stopped by the user
\* changes its remaining time only by ticks that lower it by exactly 1 (so
\* that it is at 0 after as many ticks as its record has seconds) and by the
\* stop that sets it back to the time of the record; and once it runs, it
\* is eventually stopped with the time of the record and with no tick and no
\* stop scheduled.
C13_RunsToAutoStop ==
    /\ [][timers'[9].time # timers[9].time =>
            \/ Tick(9) /\ timers'[9].time = timers[9].time - 1
            \/ Grace(9) /\ timers'[9].time = MaxDisplayTime]_vars
    /\ Running(timers[9]) ~>
          (/\ Stopped(timers[9])
           /\ timers[9].time = MaxDisplayTime
           /\ ~Scheduled(timers[9]))

\* The Timer has run to 0 and has been stopped by its own timeout.
C13_AutoStopped ==
    /\ timers[9].stopped
    /\ timers[9].time = MaxDisplayTime
    /\ ~Scheduled(timers[9])

\* C14: while a Timer is paused, no step but the stop button changes its
\* remaining time, so that the next start goes on from the time at which it
\* was paused.
C14_PausedKeepsRemaining ==
    [][Paused(timers[9]) /\ timers'[9].time # timers[9].time => StopClick(9)]_vars

\* C15: a timeout that was set before the last pause or stop of the user
\* has no effect when it runs: it leaves the phase, the remaining time and
\* the interval of the Timer as they are.
C15_NoStaleCallback ==
    [][Grace(9) /\ timers[9].stale > 0 =>
          /\ timers'[9].paused = timers[9].paused
          /\ timers'[9].stopped = timers[9].stopped
          /\ timers'[9].time = timers[9].time
          /\ timers'[9].interval = timers[9].interval]_vars

\* C16: the stop button leaves a Timer, running or paused, stopped with the
\* time of its record and without its interval; and a stopped Timer has the
\* time of its record and no interval in every state, that is until it is
\* started again.
C16_StopResets ==
    /\ [][StopClick(9) =>
             /\ Stopped(timers'[9])
             /\ timers'[9].time = timers[9].defaultTime
             /\ ~timers'[9].interval]_vars
    /\ [](Stopped(timers[9]) =>
             timers[9].time = timers[9].defaultTime /\ ~timers[9].interval)

\* The Timer was paused and is now stopped.
C16_StoppedWhilePaused ==
    /\ timers[9].stopped
    /\ timers[9].paused
    /\ timers[9].time = MaxCountdown
    /\ ~timers[9].interval

\* C17: in every state in which each Timer of the list is stopped, the
\* document title is the title the page had before any Timer wrote it.
C17_TitleRestored ==
    (\A id \in DOMAIN timers : Stopped(timers[id])) => documentTitle = PageTitle

\* C18: once a Timer is unmounted nothing of it is scheduled any more, and
\* no callback of it changes the document title.
C18_NothingOutlivesDisplay ==
    /\ [](\A g \in unmounted : ~Scheduled(g))
    /\ [][(\E g \in unmounted : UnmountedTick(g) \/ UnmountedGrace(g)) =>
             documentTitle' = documentTitle]_vars

\* C19: the stop button on a Timer that is stopped leaves it stopped with
\* the time of its record, and leaves what is scheduled and the document
\* title as they are.
C19_StopIdempotent ==
    [][\A id \in DOMAIN timers :
          StopClick(id) /\ Stopped(timers[id]) =>
             /\ Stopped(timers'[id])
             /\ timers'[id].time = timers[id].defaultTime
             /\ timers'[id].interval = timers[id].interval
             /\ timers'[id].graces = timers[id].graces
             /\ documentTitle' = documentTitle]_vars

\* C20: the hours, minutes and seconds a Timer shows for its remaining time r
\* are the floor of r / 3600, the floor of (r mod 3600) / 60 and r mod 60:
\* they add up to r, minutes and seconds are at most 59, and each is shown
\* with at least two digits, a single digit after a "0".
C20_ClockOfRemaining ==
    LET r == timers[9].time
        h == ParseNumber(getHours(r))
        m == ParseNumber(getMinutes(r))
        s == ParseNumber(getSeconds(r))
        two(text, n) == Len(text) >= 2 /\ (n < 10 => text = <<"0">> \o NumToString(n))
    IN /\ h = r \div 3600
       /\ m = (r % 3600) \div 60
       /\ s = r % 60
       /\ h * 3600 + m * 60 + s = r
       /\ m <= 59
       /\ s <= 59
       /\ two(getHours(r), h)
       /\ two(getMinutes(r), m)
       /\ two(getSeconds(r), s)

\* The running Timer shows 01:01:01.
C20_HourMinuteSecond ==
    /\ timers[9].time = 3661
    /\ timers[9].interval
    /\ documentTitle = <<"Timer", " - ", "0", "1", ":", "0", "1", ":", "0", "1">>


(***************************************************************************)
(* The Store.                                                              *)
(***************************************************************************)

\* C21: the get of the key under which the last set has written a record
\* resolves with a record equal to the one that set was given, also when an
\* earlier set had written another record under the key.
C21_SetThenGet ==
    [][(/\ mq # <<>>
        /\ Head(mq).kind = "getResume"
        /\ ~saved.isNull
        /\ Prefixed(Head(mq).key) = Prefixed(SaveKey(saved)))
          => mq'[Len(mq')].data = saved]_vars

\* The get has resolved with the record of the second set under a key.
C21_OverwrittenAndRead ==
    /\ ~saved.isNull
    /\ Prefixed(SaveKey(saved)) \in DOMAIN before
    /\ JSONparse(before[Prefixed(SaveKey(saved))]) # saved
    /\ mq # <<>>
    /\ Head(mq).kind = "pushThen"
    /\ Head(mq).data = saved

\* C22: the get of a key that is not stored resolves with null and leaves
\* the Store as it is, and the delete of a key that is not stored leaves
\* every key and value of the Store as it is (a step that takes the job
\* from the queue is the step of the get or of the delete).
C22_AbsentKey ==
    [][/\ (/\ mq # <<>>
           /\ Head(mq).kind = "getResume"
           /\ Prefixed(Head(mq).key) \notin DOMAIN localStorage
           /\ mq' # mq)
             => mq'[Len(mq')].data = Null /\ localStorage' = localStorage
       /\ (/\ mq # <<>>
           /\ Head(mq).kind = "deleteResume"
           /\ Prefixed(Head(mq).key) \notin DOMAIN localStorage
           /\ mq' # mq)
             => localStorage' = localStorage]_vars

\* The delete was of a key the other page had removed before, and in the
\* refresh after it a get was of a key the other page had removed after the
\* keys were read.
C22_DeletedAndReadAbsent ==
    /\ op = "deleted"
    /\ Prefixed(DeleteKey(dialogId)) \notin DOMAIN before
    /\ mq # <<>>
    /\ Head(mq).kind = "pushThen"
    /\ Head(mq).data.isNull

\* C29: no element of a list that is published is null: each is a record
\* with id, time and title, also when a record is removed between the
\* reading of the keys and the get of its key.
C29_NoNullPublished ==
    \A i \in 1..Len(stateData) : ~stateData[i].isNull

\* The key of the entry of the timer with the given id: 'timer', '-' and the
\* decimal digits of the id.
KeyOfId(id) == <<"t", "i", "m", "e", "r", "-">> \o NumToString(id)

\* C23: every timer entry of the Store is under the key of the id of its own
\* record, and the delete of a shown timer removes the entry under the key
\* of that timer's id and no other.
C23_KeyOfOwnId ==
    /\ [](\A k \in StorageKeys(localStorage) :
             k = KeyOfId(JSONparse(localStorage[k]).id))
    /\ [][(mq # <<>> /\ Head(mq).kind = "deleteResume") =>
             /\ KeyOfId(dialogId) \in DOMAIN localStorage
             /\ localStorage' = RemoveItem(localStorage, KeyOfId(dialogId))]_vars

\* Two timers were stored, and the second of them has been deleted: the
\* refresh after the delete has published the first.
C23_SecondOfTwoDeleted ==
    /\ op = "deleted"
    /\ Cardinality(StorageKeys(before)) = 2
    /\ Cardinality(StorageKeys(localStorage)) = 1
    /\ KeyOfId(dialogId) \in DOMAIN before
    /\ KeyOfId(dialogId) \notin DOMAIN localStorage
    /\ Len(stateData) = 1
    /\ mq = <<>>

\* C24: when the jobs of a create have run and the create has not
\* succeeded, the user is shown the error of the Add slide or a message.
C24_FailureIsShown ==
    (mq = <<>> /\ op = "creating") => (addError \/ messages # <<>>)

(***************************************************************************)
(* The Snackbar.                                                           *)
(***************************************************************************)

\* C25: the texts the Snackbar has shown are, in their order, the first of
\* the messages App.showMessage was given; the messages not yet shown wait
\* in their order in the queue of the Snackbar.
C25_ShownInOrder ==
    /\ Len(snackbar.displayed) <= Len(snackbar.received)
    /\ \A i \in 1..Len(snackbar.displayed) : snackbar.displayed[i] = snackbar.received[i]
    /\ snackbar.received = snackbar.displayed \o snackbar.queue \o messages

\* Three messages were given while the first was shown, and the Snackbar
\* has shown them all, the second when the first was hidden.
C25_ThreeShown ==
    /\ snackbar.received = <<"Timer successfully added", "Timer successfully removed",
                             "Timer successfully added">>
    /\ snackbar.displayed = snackbar.received
    /\ snackbar.text = "Timer successfully added"
    /\ snackbar.active

(***************************************************************************)
(* The interval of a Timer.                                                *)
(***************************************************************************)

\* C26: the interval of a mounted Timer is active exactly while the Timer
\* is Running (paused and stopped both false), and no Timer has a second
\* interval active: startTimer never replaces the handle of an active one.
C26_IntervalIffRunning ==
    \A id \in DOMAIN timers :
        /\ timers[id].interval <=> Running(timers[id])
        /\ timers[id].leaked = 0

\* The Timer runs again, with its one interval, after it has counted down to
\* 0 and was stopped by the button: the timeout of stopTimer is still to come.
C26_RunsAfterStop ==
    /\ 9 \in DOMAIN timers
    /\ Running(timers[9])
    /\ timers[9].interval
    /\ timers[9].graces > 0
    /\ timers[9].time = timers[9].defaultTime

(***************************************************************************)
(* A create and the records stored before it.                              *)
(***************************************************************************)

\* C30: the write of a create adds exactly one entry to the Store, and
\* every entry stored before it stays, with the text it had, whatever id
\* generateUUID has returned.
C30_CreateAddsOne ==
    [][(/\ mq # <<>>
        /\ Head(mq).kind = "setResume"
        /\ mq' # mq)
          => /\ Cardinality(StorageKeys(localStorage'))
                    = Cardinality(StorageKeys(localStorage)) + 1
             /\ \A k \in StorageKeys(localStorage) :
                    /\ k \in StorageKeys(localStorage')
                    /\ localStorage'[k] = localStorage[k]]_vars

(***************************************************************************)
(* The Timers over a refresh.                                              *)
(***************************************************************************)

\* C27: a step of the page (a create, a delete, a job of a refresh, a
\* publication) leaves every Timer whose record is in the Store after the
\* step mounted, with the phase, the remaining time and the callbacks it had:
\* the Timer is neither reset nor constructed again.
C27_TimersKept ==
    [][appVars' # appVars =>
         \A id \in DOMAIN timers :
            Prefixed(NumToString(id)) \in StorageKeys(localStorage')
               => /\ id \in DOMAIN timers'
                  /\ [timers'[id] EXCEPT !.title = timers[id].title] = timers[id]]_vars

\* The refresh of a create has published the list of two records and the
\* Landing shows the new Timer, while the first Timer runs and has counted
\* its second down; the second publication of the refresh is still to come.
C27_CreatedWhileRunning ==
    /\ op = "created"
    /\ mq # <<>>
    /\ pubCount = 1
    /\ DOMAIN timers = {9, 10}
    /\ Running(timers[9])
    /\ timers[9].time = 0
    /\ timers[9].defaultTime = 1

(***************************************************************************)
(* The refreshes of one page.                                              *)
(***************************************************************************)

\* The jobs of a refresh that has not yet read its keys, and those of a
\* refresh that fetches and publishes.
RefreshStarting == {i \in 1..Len(mq) : mq[i].kind \in {"keysResume", "keysThen"}}

RefreshFetching == {i \in 1..Len(mq) : mq[i].kind \in {"getResume", "pushThen", "publishThen"}}

\* No getLandingData starts while the jobs of an earlier one are pending:
\* every call is the last of its task or job, and the jobs of a refresh run
\* before the next task (see C28).
OneRefreshInFlight ==
    /\ Cardinality(RefreshStarting) <= 1
    /\ RefreshStarting # {} => RefreshFetching = {}

(***************************************************************************)
(* The remove dialog of the Landing.                                       *)
(***************************************************************************)

\* C31: a step that hides the dialog without a delete (cancel) leaves the
\* Store as it is; the delete of a confirm removes the entry of the timer
\* whose control opened the dialog (dialogId), a timer that is shown, and
\* leaves every other entry; and while the delete of a confirm is pending
\* the dialog stays, no refresh is started and no message is added: all
\* three happen in a step that finds the entry removed.
C31_ConfirmDeletesDialogTimer ==
    [][/\ (dialogActive /\ ~dialogActive' /\ op # "deleting")
             => localStorage' = localStorage
       /\ (op = "deleting" /\ localStorage' # localStorage)
             => /\ dialogId \in ShownIds
                /\ DOMAIN localStorage' = DOMAIN localStorage \ {KeyOfId(dialogId)}
                /\ \A k \in DOMAIN localStorage' : localStorage'[k] = localStorage[k]
                /\ dialogActive' /\ messages' = messages
                /\ \A i \in 1..Len(mq') : mq'[i].kind # "keysResume"
       /\ (op = "deleting" /\ (dialogActive' # dialogActive \/ messages' # messages
                                  \/ \E i \in 1..Len(mq') : mq'[i].kind = "keysResume"))
             => /\ KeyOfId(dialogId) \notin DOMAIN localStorage
                /\ KeyOfId(dialogId) \in DOMAIN before
                /\ ~dialogActive'
                /\ messages' = Append(messages, "Timer successfully removed")
                /\ \E i \in 1..Len(mq') : mq'[i].kind = "keysResume"]_vars

\* The dialog of the first of two timers was confirmed: its entry is
\* removed, the entry of the other timer is kept, the dialog is hidden, the
\* refresh is started and the message is added.
C31_ConfirmedFirstOfTwo ==
    /\ op = "deleted"
    /\ ~dialogActive
    /\ Cardinality(StorageKeys(before)) = 2
    /\ StorageKeys(localStorage) = StorageKeys(before) \ {KeyOfId(dialogId)}
    /\ \E k \in StorageKeys(localStorage) : JSONparse(localStorage[k]).id > dialogId
    /\ mq # <<>> /\ Head(mq).kind = "keysResume"
    /\ messages # <<>> /\ messages[Len(messages)] = "Timer successfully removed"

(***************************************************************************)
(* The messages the Snackbar holds.                                        *)
(***************************************************************************)

\* How often a text is in a list.
Count(list, text) == Cardinality({i \in 1..Len(list) : list[i] = text})

C33_ShownUntilHidden ==
    /\ [](snackbar.shown => snackbar.active /\ snackbar.timeout)
    /\ [][/\ Len(snackbar.displayed') <= Len(snackbar.displayed) + 1
          /\ (snackbar.displayed' # snackbar.displayed /\ snackbar.displayed # <<>>)
                => ~snackbar.shown
          /\ (snackbar.received' # snackbar.received /\ snackbar.active)
                => /\ snackbar.text' = snackbar.text
                   /\ snackbar.displayed' = snackbar.displayed
                   /\ Len(snackbar.queue') = Len(snackbar.queue) + 1]_vars

(***************************************************************************)
(* The Snackbar comes to rest.                                             *)
(***************************************************************************)

\* C34: when timeouts fire and transitions end, a message that is shown is
\* eventually hidden, every message that was given is eventually displayed,
\* and in the end the Snackbar stays hidden and inactive with an empty
\* queue, whatever the user does or does not do.
C34_ComesToRest ==
    /\ snackbar.shown ~> ~snackbar.shown
    /\ \A n \in 1..MaxReceived :
          (Len(snackbar.received) >= n) ~> (Len(snackbar.displayed) >= n)
    /\ <>[](~snackbar.shown /\ ~snackbar.active /\ snackbar.queue = <<>>)

(***************************************************************************)
(* The slides of the App.                                                  *)
(***************************************************************************)

\* C35: whenever the Landing is not active, a slide is: activeSlide names
\* the slide that was opened last, also when the timeout of an earlier
\* goBack fires after the slide was opened.
C35_SlideWhileLandingAway == ~landingActive => activeSlide # "null"


\* C36: after the Dialog is closed by cancel, confirm or Escape, the class
\* that locks the scrollbar parent is in the end removed, the container is
\* deactivated, and in keyboard mode the focus is back on the element that
\* had it before the dialog opened.
C36_ClosedComesToRest ==
    dialog.closed ~> (\/ ~dialog.closed
                      \/ /\ ~dialog.scrollLocked
                         /\ ~dialog.containerActive
                         /\ dialog.keyboard => dialog.focus = dialog.lastActive)

\* What n presses of Tab leave.
RECURSIVE Tabs(_, _)
Tabs(d, n) == IF n = 0 THEN d ELSE Tabs(focusNextElem(d), n - 1)

\* C37: in a keyboard Dialog with n >= 1 focusable elements focusIndex stays
\* in 0..n-1 after any sequence of Tab and Shift+Tab; Tab on the last element
\* goes to the first, Shift+Tab on the first goes to the last, Tab and then
\* Shift+Tab returns to the same element, and so do n presses of Tab.
C37_FocusIndexWraps ==
    (dialog.mounted /\ dialog.keyboard) =>
        LET n == dialog.focusable
            i == dialog.focusIndex
        IN /\ n >= 1
           /\ i \in 0..(n - 1)
           /\ (i = n - 1) => focusNextElem(dialog).focusIndex = 0
           /\ (i = 0) => focusPreviousElem(dialog).focusIndex = n - 1
           /\ focusPreviousElem(focusNextElem(dialog)).focusIndex = i
           /\ Tabs(dialog, n).focusIndex = i

\* A keyboard Dialog of three or more elements with the focus on the last one.
C37_FocusOnLast ==
    /\ dialog.mounted /\ dialog.keyboard
    /\ dialog.focusable >= 3
    /\ dialog.focusIndex = dialog.focusable - 1
    /\ dialog.focus = "dialog"


\* The three settings of the preferences and their defaults.
PreferenceKeys == {AccentKey, GradientKey, ThemeKey}
PreferenceDefault(key) ==
    IF key = AccentKey THEN <<"teal">>
    ELSE IF key = GradientKey THEN <<"KyeMeh">>
    ELSE <<"light">>

\* C38: after a PreferencesManager is constructed localStorage holds a value
\* for each of app-accent, app-gradient and app-theme; a setting that had a
\* value keeps it and one without gets its default (teal, KyeMeh, light), and
\* applyPreferences then puts the stored accent and gradient on the page,
\* also on the first run, when the fields of the manager are null.
C38_DefaultsStoredAndApplied ==
    /\ [](mounted => PreferenceKeys \subseteq DOMAIN localStorage)
    /\ [][(~mounted /\ mounted') =>
            /\ \A key \in PreferenceKeys :
                  localStorage'[key] = IF key \in DOMAIN localStorage
                                       THEN localStorage[key]
                                       ELSE PreferenceDefault(key)
            /\ preferences'.accentClasses = {localStorage'[AccentKey]}
            /\ preferences'.gradientClasses = {localStorage'[GradientKey]}]_vars

\* The manager of a first run has been constructed and applied: its fields
\* are null, the defaults are stored and their classes are on the page.
C38_FirstRunApplied ==
    /\ mounted
    /\ preferences.accent.null /\ preferences.gradient.null /\ preferences.theme.null
    /\ localStorage[AccentKey] = <<"teal">>
    /\ localStorage[GradientKey] = <<"KyeMeh">>
    /\ localStorage[ThemeKey] = <<"light">>
    /\ preferences.accentClasses = {<<"teal">>}
    /\ preferences.gradientClasses = {<<"KyeMeh">>}

=============================================================================
